---- MODULE Spec2Model ----
(***************************************************************************)
(* A model of the investment-comparison toolkit: the ticker resolver       *)
(* (ticker_resolver.py), the partial-data portfolio valuator               *)
(* (smart_calculator.py), the stock data scraper (tools/data_scraper.py)   *)
(* and the pipeline of main.py.                                            *)
(*                                                                         *)
(* Python strings are sequences of one-character strings, so that          *)
(* str.replace, str.split, str.strip and string concatenation are modelled *)
(* by what they do.  None and the empty string are both the empty          *)
(* sequence: the code only ever tests them by truthiness.                  *)
(***************************************************************************)
EXTENDS Integers, Sequences, FiniteSets, TLC

VARIABLES
    \* ---- ticker_resolver.py: resolve_all_tickers / find_working_ticker ----
    securities,         \* holdings_df['Security Name'], the input column
    r_pc,               \* position inside resolve_all_tickers / find_working_ticker
    unique_securities,  \* line 216
    idx,                \* loop position of line 224 (1-based)
    success_map,        \* line 221
    failed_list,        \* line 222
    ticker,             \* local `ticker` of find_working_ticker / resolve_all_tickers
    variations,         \* line 201
    vi,                 \* position of the loop of line 203 inside variations[:3]
    consulted,          \* history: the sources the current find_working_ticker call used
    probes,             \* history: the test_ticker calls of the current find_working_ticker call
    sleeps,             \* history: number of time.sleep(0.1) calls of the current call
    okProbes,           \* history: <<name, ticker>> pairs whose full probe returned True
    calls,              \* history: number of find_working_ticker calls per name
    \* ---- smart_calculator.py: calculate_portfolio_with_partial_data ----
    holdings_df,        \* rows [NAME, Security, Holding, Value] of the holdings table
    stock_data,         \* security -> price series (date -> price)
    dates,              \* the date grid, ascending
    v_pc,               \* position inside calculate_portfolio_with_partial_data
    groups,             \* the keys of holdings_df.groupby('NAME'), ascending
    gi,                 \* loop position of line 17 (1-based)
    investor_portfolios,\* line 15: investor -> value series (date -> number)
    tracked,            \* history: portfolio_with_data as it is after the loop of lines 25-33
    \* ---- tools/data_scraper.py: scrape_all_stocks ----
    ticker_map,         \* the argument: a sequence of <<security name, ticker>>, names distinct
    force_redownload,   \* the argument
    s_pc,               \* position inside scrape_all_stocks
    state,              \* the local `state`: [downloaded: name -> info, failed: list]
    state_file,         \* the content of STATE_FILE, or NoFile
    price_files,        \* the files that exist in PRICE_DATA_DIR
    si,                 \* loop position of line 109 (1-based)
    counts,             \* success_count, failed_count, skipped_count
    downloads,          \* history: the download_stock_data calls of the current run
    runs,               \* history: number of scrape_all_stocks calls so far
    uncached,           \* history: the securities of ticker_map that were not cached
                        \* (not recorded, or without price file) when the run was called
    \* ---- main.py: main ----
    m_pc,               \* position inside main
    load_outcome,       \* history: what load_holdings_data met
    multi_cap_weights,  \* line 81: security -> weight
    mid_small_weights,  \* line 81: security -> weight
    resolved,           \* the keys of success_map of line 97
    scraped,            \* history: main called scrape_all_stocks (line 115)
    scraper_stats,      \* scraper_stats['total_downloaded'] of line 107, 0 before it
    stock_keys,         \* list(stock_data.keys()), the order of the dictionary
    investor_returns,   \* lines 150-159
    multi_cap_returns,  \* line 164, then line 204
    mid_small_returns,  \* line 171, then line 206
    nifty_data_dict,    \* line 179
    nifty_returns,      \* lines 183 and 196
    chart,              \* the figure of line 208: the series it draws
    final_returns,      \* line 223
    m_exit,             \* the message main returned with, or the exception that left it
    stages,             \* history: the stages main has run, in order
    \* ---- investment_calculator.py, enhanced_main.py, smart_calculator.py: reports ----
    investment_date,    \* the argument investment_date
    security_arg,       \* the argument security_name of the last get_april_2024_price call
    fetched,            \* history: a series object as the fetch step returned it
    series_obj,         \* the same series object now
    call,               \* the report routine that was called last
    result,             \* what it returned
    \* ---- nse_equity_matcher.py: find_best_match ----
    holdings_name,      \* the argument holdings_name
    nse_dict,           \* the argument: a sequence of <<company name, symbol>>, names distinct
    threshold,          \* the argument threshold
    fm_pc,              \* "start" before the call, "returned" after it
    match,              \* the returned (symbol, score, type)
    \* ---- main.py: calculate_fund_returns called on its own ----
    f_stock_data,       \* the argument stock_data
    f_keys,             \* the order of its keys
    f_weights,          \* the argument fund_weights
    f_pc,               \* "start" before the call, "returned" after it
    f_return,           \* the returned series
    total_coverage,     \* the local total_coverage at the return, 0 on an early return
    \* ---- data_loader.py: load_holdings_data and the routines that take its frame ----
    c_sheet,            \* the frame pd.read_excel returns: [columns, rows of cells]
    c_loaded,           \* the frame load_holdings_data returned
    c_pc,               \* "start", then "loaded" or "raised", then "called"
    c_call,             \* the routine that was given the loaded frame
    c_result,           \* what it returned
    c_raised            \* the exception that was raised, "none" without one

resolverVars == <<securities, r_pc, unique_securities, idx, success_map, failed_list,
                  ticker, variations, vi, consulted, probes, sleeps, okProbes, calls>>

valuatorVars == <<holdings_df, stock_data, dates, v_pc, groups, gi, investor_portfolios,
                  tracked>>

scraperVars == <<uncached, ticker_map, force_redownload, s_pc, state, state_file, price_files, si,
                 counts, downloads, runs>>

\* The variables of the other components, which the resolver leaves alone.
mainVars == <<m_pc, load_outcome, multi_cap_weights, mid_small_weights, resolved, scraped,
              scraper_stats,
              stock_keys, investor_returns, multi_cap_returns, mid_small_returns,
              nifty_data_dict, nifty_returns, chart, final_returns, m_exit, stages>>

reportVars == <<investment_date, security_arg, fetched, series_obj, call, result>>

matcherVars == <<holdings_name, nse_dict, threshold, fm_pc, match>>

fundVars == <<f_stock_data, f_keys, f_weights, f_pc, f_return, total_coverage>>

loaderVars == <<c_sheet, c_loaded, c_pc, c_call, c_result, c_raised>>

notResolver == <<valuatorVars, scraperVars, mainVars, reportVars, matcherVars, fundVars, loaderVars>>

\* The variables of the other components, which the valuator leaves alone.
notValuator == <<resolverVars, scraperVars, mainVars, reportVars, matcherVars, fundVars, loaderVars>>

\* The variables of the other components, which the scraper leaves alone.
notScraper == <<resolverVars, valuatorVars, mainVars, reportVars, matcherVars, fundVars, loaderVars>>

\* The variables of the resolver and of the scraper, which main reaches only
\* through the results of its calls.
notMain == <<resolverVars, scraperVars, reportVars, matcherVars, fundVars, loaderVars>>

\* The variables the report routines cannot reach.
notReports == <<resolverVars, scraperVars, mainVars, matcherVars, fundVars, loaderVars>>

\* The variables of the other components, which the matcher leaves alone.
notMatcher == <<resolverVars, valuatorVars, scraperVars, mainVars, reportVars, fundVars, loaderVars>>

\* The variables of the other components, which a fund return leaves alone.
notFund == <<resolverVars, valuatorVars, scraperVars, mainVars, reportVars, matcherVars,
            loaderVars>>

\* The variables a call of the loader or of a routine on its frame leaves alone.
notLoader == <<resolverVars, scraperVars, mainVars, reportVars, matcherVars, fundVars>>

vars == <<resolverVars, valuatorVars, scraperVars, mainVars, reportVars, matcherVars,
          fundVars, loaderVars>>

----------------------------------------------------------------------------
(* Python string operations on sequences of characters.                    *)

None == <<>>

Min(a, b) == IF a <= b THEN a ELSE b

\* s[i .. i+Len(p)-1] = p
MatchAt(s, p, i) ==
    /\ i + Len(p) - 1 <= Len(s)
    /\ \A k \in 1..Len(p) : s[i + k - 1] = p[k]

\* `sub in s`
Contains(s, sub) == \E i \in 1..(Len(s) + 1) : MatchAt(s, sub, i)

RECURSIVE RemoveFrom(_, _, _)
RemoveFrom(s, old, i) ==
    IF i > Len(s) THEN <<>>
    ELSE IF MatchAt(s, old, i) THEN RemoveFrom(s, old, i + Len(old))
    ELSE <<s[i]>> \o RemoveFrom(s, old, i + 1)

\* s.replace(old, ''): leftmost non-overlapping occurrences, old non-empty
Remove(s, old) == RemoveFrom(s, old, 1)

RECURSIVE LStrip(_)
LStrip(s) == IF s # <<>> /\ Head(s) = " " THEN LStrip(Tail(s)) ELSE s

RECURSIVE RStrip(_)
RStrip(s) ==
    IF s # <<>> /\ s[Len(s)] = " " THEN RStrip(SubSeq(s, 1, Len(s) - 1)) ELSE s

\* s.strip()
Strip(s) == RStrip(LStrip(s))

LowerCase == <<"a", "b", "c", "d", "e", "i", "l", "m", "t">>
UpperCase == <<"A", "B", "C", "D", "E", "I", "L", "M", "T">>

UpperChar(c) ==
    IF \E k \in 1..Len(LowerCase) : LowerCase[k] = c
    THEN UpperCase[CHOOSE k \in 1..Len(LowerCase) : LowerCase[k] = c]
    ELSE c

\* s.upper()
Upper(s) == [k \in 1..Len(s) |-> UpperChar(s[k])]

RECURSIVE SplitFrom(_, _, _)
SplitFrom(s, i, word) ==
    IF i > Len(s) THEN (IF word = <<>> THEN <<>> ELSE <<word>>)
    ELSE IF s[i] = " "
         THEN (IF word = <<>> THEN <<>> ELSE <<word>>) \o SplitFrom(s, i + 1, <<>>)
         ELSE SplitFrom(s, i + 1, Append(word, s[i]))

\* s.split(): the words between runs of whitespace
Split(s) == SplitFrom(s, 1, <<>>)

RECURSIVE RemoveAll(_, _)
RemoveAll(s, olds) ==
    IF olds = <<>> THEN s ELSE RemoveAll(Remove(s, Head(olds)), Tail(olds))

RECURSIVE Dedupe(_)
\* list(dict.fromkeys(xs)) and Series.unique(): first occurrences, in order
Dedupe(xs) ==
    IF xs = <<>> THEN <<>>
    ELSE LET init == Dedupe(SubSeq(xs, 1, Len(xs) - 1))
             last == xs[Len(xs)]
         IN  IF \E k \in 1..Len(init) : init[k] = last THEN init ELSE Append(init, last)

Range(xs) == {xs[k] : k \in 1..Len(xs)}

----------------------------------------------------------------------------
(* ticker_resolver.py                                                      *)

NS == <<".", "N", "S">>
BO == <<".", "B", "O">>
LIMITED == <<" ", "L", "I", "M", "I", "T", "E", "D">>
LTD == <<" ", "L", "T", "D">>

\* Security names of the holdings export used as inputs.
ITC_LIMITED_EQ == <<"I", "t", "c", " ", "L", "I", "M", "I", "T", "E", "D", " ", "E", "Q">>
COAL_INDIA_LTD == <<"C", "O", "A", "L", " ", "I", "N", "D", "I", "A", " ", "L", "T", "D">>
A_B_C_LTD == <<"A", " ", "B", " ", "C", " ", "L", "T", "D">>
TCS_EQ_NEW == <<"T", "C", "S", " ", "E", "Q", " ", "N", "E", "W">>

SecurityNames == {ITC_LIMITED_EQ, A_B_C_LTD, TCS_EQ_NEW}

\* The entries of NSE_TICKER_MAP that the inputs can hit.
NSE_TICKER_MAP ==
    ( <<"I", "T", "C", " ", "L", "I", "M", "I", "T", "E", "D">> :> <<"I", "T", "C">> ) @@
    ( COAL_INDIA_LTD :> <<"C", "O", "A", "L", "I", "N", "D", "I", "A">> )

\* The curated table of validated_tickers.py (not part of the sources read):
\* a lookup from the security name to a ticker with its exchange suffix.
VALIDATED_NSE_TICKERS ==
    ( ITC_LIMITED_EQ :> <<"I", "T", "C", ".", "N", "S">> ) @@
    ( COAL_INDIA_LTD :> <<"C", "O", "A", "L", "I", "N", "D", "I", "A", ".", "N", "S">> )

get_validated_ticker(security_name) ==
    IF security_name \in DOMAIN VALIDATED_NSE_TICKERS
    THEN VALIDATED_NSE_TICKERS[security_name]
    ELSE None

CleanPatterns == <<
    <<" ", "E", "Q", " ", "N", "E", "W", " ", "R", "S", ".", " ", "2", "/", "-">>,
    <<" ", "E", "Q", " ", "N", "E", "W", " ", "R", "S", ".", " ", "2", "/">>,
    <<" ", "E", "Q", " ", "N", "E", "W", " ", "F", "V", " ", "R", "S", ".", " ", "2", "/", "-">>,
    <<" ", "E", "Q", " ", "N", "E", "W">>,
    <<" ", "R", "S", ".", " ", "1", "0", "/", "-">>,
    <<" ", "R", "S", ".", " ", "2", "/", "-">>,
    <<" ", "E", "Q">>,
    <<" ", "N", "E", "W">>,
    <<" ", "F", "V", " ", "R", "S", ".", " ", "1", "0", "/", "-">>,
    <<" ", "F", "V", " ", "R", "S", ".", " ", "2", "/", "-">>,
    <<" ", "1", "0", "/", "-">>,
    <<" ", "2", "/", "-">> >>

clean_security_name(name) == Strip(RemoveAll(Strip(Upper(name)), CleanPatterns))

\* The four groups of guesses of try_ticker_variations, before de-duplication.
MapGuesses(base_name) ==
    IF base_name \in DOMAIN NSE_TICKER_MAP
    THEN <<NSE_TICKER_MAP[base_name] \o NS, NSE_TICKER_MAP[base_name] \o BO>>
    ELSE <<>>

FirstWordGuesses(base_name) ==
    LET words == Split(base_name)
    IN  IF words # <<>> THEN <<words[1] \o NS, words[1] \o BO>> ELSE <<>>

FirstTwoWordsGuesses(base_name) ==
    LET words == Split(base_name)
    IN  IF Len(words) > 1
        THEN <<(words[1] \o words[2]) \o NS, (words[1] \o words[2]) \o BO>>
        ELSE <<>>

Abbrev(base_name) ==
    LET ws == Split(Remove(Remove(base_name, LIMITED), LTD))
    IN  [k \in 1..Len(ws) |-> ws[k][1]]

AbbrevGuesses(base_name) ==
    IF (Contains(base_name, LIMITED) \/ Contains(base_name, LTD))
       /\ Len(Abbrev(base_name)) > 2
    THEN <<Abbrev(base_name) \o NS, Abbrev(base_name) \o BO>>
    ELSE <<>>

try_ticker_variations(base_name) ==
    Dedupe(MapGuesses(base_name) \o FirstWordGuesses(base_name)
           \o FirstTwoWordsGuesses(base_name) \o AbbrevGuesses(base_name))

\* What the data source answers to one probe.
ProbeOutcomes == {"rows", "empty", "raises"}

\* test_ticker: True only when the lookup it makes returns data
test_ticker(outcome, quick_test) ==
    IF quick_test THEN outcome = "info" ELSE outcome = "rows"

\* A resolver that tries every variation instead of the first three.
TriedVariations_All(vs) == vs

\* A resolver that tries the first four variations.
TriedVariations_Four(vs) == SubSeq(vs, 1, Min(Len(vs), 4))

\* variations[:3]
TriedVariations(vs) == SubSeq(vs, 1, Min(Len(vs), 3))

CurrentName == unique_securities[idx]

MaxSecurities == 3

SeqsUpTo(S, n) == UNION {[1..k -> S] : k \in 0..n}

\* One call of test_ticker, with the number of time.sleep(0.1) calls made before
\* it while the same security is being resolved.
ProbeRecord(t, source, outcome) ==
    [ticker |-> t, source |-> source, quick_test |-> FALSE,
     ok |-> test_ticker(outcome, FALSE), sleeps_before |-> sleeps]

\* The resolver before it is called.
IdleResolver ==
    /\ securities = <<>>
    /\ r_pc = "idle"
    /\ unique_securities = <<>>
    /\ idx = 0
    /\ success_map = <<>>
    /\ failed_list = <<>>
    /\ ticker = None
    /\ variations = <<>>
    /\ vi = 0
    /\ consulted = <<>>
    /\ probes = <<>>
    /\ sleeps = 0
    /\ okProbes = {}
    /\ calls = [n \in SecurityNames |-> 0]

NoFile == [exists |-> FALSE]

\* load_download_state when STATE_FILE does not exist (line 30)
EmptyState == [downloaded |-> <<>>, failed |-> <<>>]

ZeroCounts == [success_count |-> 0, failed_count |-> 0, skipped_count |-> 0]

\* The scraper before it is called, on a machine without cache.
IdleScraper ==
    /\ uncached = {}
    /\ ticker_map = <<>>
    /\ force_redownload = FALSE
    /\ s_pc = "idle"
    /\ state = EmptyState
    /\ state_file = NoFile
    /\ price_files = {}
    /\ si = 0
    /\ counts = ZeroCounts
    /\ downloads = <<>>
    /\ runs = 0

\* The locals of main before its first statement.
MainLocals ==
    /\ load_outcome = "none"
    /\ multi_cap_weights = <<>>
    /\ mid_small_weights = <<>>
    /\ resolved = {}
    /\ scraper_stats = 0
    /\ scraped = FALSE
    /\ stock_keys = <<>>
    /\ investor_returns = <<>>
    /\ multi_cap_returns = <<>>
    /\ mid_small_returns = <<>>
    /\ nifty_data_dict = <<>>
    /\ nifty_returns = <<>>
    /\ chart = <<>>
    /\ final_returns = <<>>
    /\ m_exit = "none"
    /\ stages = <<>>

\* main before it is called.
IdleMain ==
    /\ m_pc = "idle"
    /\ MainLocals

\* calculate_fund_returns before it is called on its own.
IdleFund ==
    /\ f_stock_data = <<>>
    /\ f_keys = <<>>
    /\ f_weights = <<>>
    /\ f_pc = "idle"
    /\ f_return = <<>>
    /\ total_coverage = [n |-> 0, d |-> 1]

\* The loader before a sheet is read.
IdleLoader ==
    /\ c_sheet = <<>>
    /\ c_loaded = <<>>
    /\ c_pc = "idle"
    /\ c_call = "none"
    /\ c_result = <<>>
    /\ c_raised = "none"

\* The matcher before it is given anything.
IdleMatcher ==
    /\ holdings_name = <<>>
    /\ nse_dict = <<>>
    /\ threshold = [n |-> 0, d |-> 1]
    /\ fm_pc = "idle"
    /\ match = <<>>

\* No report routine has been called.
IdleReports ==
    /\ investment_date = 0
    /\ security_arg = "none"
    /\ fetched = <<>>
    /\ series_obj = <<>>
    /\ call = "none"
    /\ result = <<>>

\* The valuator before it is called.
IdleValuator ==
    /\ holdings_df = <<>>
    /\ stock_data = <<>>
    /\ dates = <<>>
    /\ v_pc = "idle"
    /\ groups = <<>>
    /\ gi = 0
    /\ investor_portfolios = <<>>
    /\ tracked = <<>>

InitResolver ==
    /\ IdleMatcher
    /\ IdleFund
    /\ IdleLoader
    /\ IdleReports
    /\ IdleValuator
    /\ IdleScraper
    /\ IdleMain
    /\ securities \in SeqsUpTo(SecurityNames, MaxSecurities)
    /\ r_pc = "start"
    /\ unique_securities = <<>>
    /\ idx = 0
    /\ success_map = <<>>
    /\ failed_list = <<>>
    /\ ticker = None
    /\ variations = <<>>
    /\ vi = 0
    /\ consulted = <<>>
    /\ probes = <<>>
    /\ sleeps = 0
    /\ okProbes = {}
    /\ calls = [n \in SecurityNames |-> 0]

\* A resolver that loops over the raw column instead of its unique values.
ResolveStart_NoUnique ==
    /\ r_pc = "start"
    /\ unique_securities' = securities
    /\ idx' = 1
    /\ success_map' = <<>>
    /\ failed_list' = <<>>
    /\ r_pc' = "loop"
    /\ UNCHANGED <<securities, ticker, variations, vi, consulted, probes, sleeps,
                   okProbes, calls>>
    /\ UNCHANGED notResolver

\* resolve_all_tickers, lines 216-222
ResolveStart ==
    /\ r_pc = "start"
    /\ unique_securities' = Dedupe(securities)
    /\ idx' = 1
    /\ success_map' = <<>>
    /\ failed_list' = <<>>
    /\ r_pc' = "loop"
    /\ UNCHANGED <<securities, ticker, variations, vi, consulted, probes, sleeps,
                   okProbes, calls>>
    /\ UNCHANGED notResolver

\* find_working_ticker is called for the next name: lines 227, 194
FindWorkingTicker ==
    /\ r_pc = "loop"
    /\ idx <= Len(unique_securities)
    /\ calls' = [calls EXCEPT ![CurrentName] = @ + 1]
    /\ consulted' = <<"validated_table">>
    /\ probes' = <<>>
    /\ sleeps' = 0
    /\ ticker' = get_validated_ticker(CurrentName)
    /\ r_pc' = "validated"
    /\ UNCHANGED <<securities, unique_securities, idx, success_map, failed_list,
                   variations, vi, okProbes>>
    /\ UNCHANGED notResolver

\* The fallback of find_working_ticker, lines 200-201
EnterVariations(security_name) ==
    /\ variations' = try_ticker_variations(clean_security_name(security_name))
    /\ vi' = 1
    /\ consulted' = Append(consulted, "heuristic_variations")
    /\ r_pc' = "variations"

\* line 195 when the table has no ticker: straight to the fallback
NoValidatedTicker ==
    /\ r_pc = "validated"
    /\ ticker = None
    /\ EnterVariations(CurrentName)
    /\ UNCHANGED <<securities, unique_securities, idx, success_map, failed_list, ticker,
                   probes, sleeps, okProbes, calls>>
    /\ UNCHANGED notResolver

\* A resolver that trusts the table: the validated ticker is returned whatever the probe says.
TestValidated_TrustTable(outcome) ==
    /\ r_pc = "validated"
    /\ ticker # None
    /\ probes' = Append(probes, ProbeRecord(ticker, "validated", outcome))
    /\ r_pc' = "return"
    /\ okProbes' = IF test_ticker(outcome, FALSE)
                   THEN okProbes \cup {<<CurrentName, ticker>>}
                   ELSE okProbes
    /\ UNCHANGED <<ticker, variations, vi, consulted>>
    /\ UNCHANGED <<securities, unique_securities, idx, success_map, failed_list, sleeps,
                   calls>>
    /\ UNCHANGED notResolver

\* lines 195-197: the validated ticker is probed and returned only when the probe succeeds
TestValidated(outcome) ==
    /\ r_pc = "validated"
    /\ ticker # None
    /\ probes' = Append(probes, ProbeRecord(ticker, "validated", outcome))
    /\ IF test_ticker(outcome, FALSE)
       THEN /\ r_pc' = "return"
            /\ okProbes' = okProbes \cup {<<CurrentName, ticker>>}
            /\ UNCHANGED <<ticker, variations, vi, consulted>>
       ELSE /\ EnterVariations(CurrentName)
            /\ UNCHANGED <<ticker, okProbes>>
    /\ UNCHANGED <<securities, unique_securities, idx, success_map, failed_list, sleeps,
                   calls>>
    /\ UNCHANGED notResolver

\* lines 203-206: one iteration of the loop over variations[:3]
TestVariation(outcome) ==
    /\ r_pc = "variations"
    /\ vi <= Len(TriedVariations(variations))
    /\ ticker' = TriedVariations(variations)[vi]
    /\ probes' = Append(probes, ProbeRecord(ticker', "variation", outcome))
    /\ IF test_ticker(outcome, FALSE)
       THEN /\ r_pc' = "return"
            /\ okProbes' = okProbes \cup {<<CurrentName, ticker'>>}
            /\ UNCHANGED <<vi, sleeps>>
       ELSE /\ sleeps' = sleeps + 1
            /\ vi' = vi + 1
            /\ UNCHANGED <<r_pc, okProbes>>
    /\ UNCHANGED <<securities, unique_securities, idx, success_map, failed_list,
                   variations, consulted, calls>>
    /\ UNCHANGED notResolver

\* line 208: the loop ran out without a working ticker
ReturnNone ==
    /\ r_pc = "variations"
    /\ vi > Len(TriedVariations(variations))
    /\ ticker' = None
    /\ r_pc' = "return"
    /\ UNCHANGED <<securities, unique_securities, idx, success_map, failed_list,
                   variations, vi, consulted, probes, sleeps, okProbes, calls>>
    /\ UNCHANGED notResolver

\* lines 229-234: the result of find_working_ticker is recorded
RecordResult ==
    /\ r_pc = "return"
    /\ IF ticker # None
       THEN /\ success_map' = [n \in DOMAIN success_map \cup {CurrentName} |->
                                  IF n = CurrentName THEN ticker ELSE success_map[n]]
            /\ UNCHANGED failed_list
       ELSE /\ failed_list' = Append(failed_list, CurrentName)
            /\ UNCHANGED success_map
    /\ idx' = idx + 1
    /\ r_pc' = "loop"
    /\ UNCHANGED <<securities, unique_securities, ticker, variations, vi, consulted,
                   probes, sleeps, okProbes, calls>>
    /\ UNCHANGED notResolver

\* line 240
ResolveReturn ==
    /\ r_pc = "loop"
    /\ idx > Len(unique_securities)
    /\ r_pc' = "done"
    /\ UNCHANGED <<securities, unique_securities, idx, success_map, failed_list, ticker,
                   variations, vi, consulted, probes, sleeps, okProbes, calls>>
    /\ UNCHANGED notResolver

NextResolver ==
    \/ ResolveStart
    \/ FindWorkingTicker
    \/ NoValidatedTicker
    \/ \E outcome \in ProbeOutcomes : TestValidated(outcome)
    \/ \E outcome \in ProbeOutcomes : TestVariation(outcome)
    \/ ReturnNone
    \/ RecordResult
    \/ ResolveReturn

SpecResolver == InitResolver /\ [][NextResolver]_vars

----------------------------------------------------------------------------
(* Properties of the ticker resolver.                                      *)

InCall == r_pc \in {"validated", "variations", "return"}

\* The variations the current call may probe, computed from the name alone.
Candidates ==
    LET vs == try_ticker_variations(clean_security_name(CurrentName))
    IN  [k \in 1..Min(Len(vs), 3) |-> vs[k]]

\* Number of probes of the validated ticker at the head of the probe history.
ValidatedProbes == IF probes # <<>> /\ probes[1].source = "validated" THEN 1 ELSE 0

C2_AbbreviationProbed ==
    (/\ r_pc = "return"
     /\ ticker = None
     /\ \/ Contains(clean_security_name(CurrentName), LIMITED)
        \/ Contains(clean_security_name(CurrentName), LTD)) =>
        \A g \in Range(AbbrevGuesses(clean_security_name(CurrentName))) :
            \E k \in 1..Len(probes) : probes[k].ticker = g

\* C3: resolve_all_tickers partitions the unique names of its input between
\* success_map and failed_list; no name is in both, failed_list has no
\* duplicate, and find_working_ticker is called exactly once per name.
C3_Partition ==
    LET done == IF r_pc = "start" THEN {}
                ELSE Range(SubSeq(unique_securities, 1, idx - 1))
    IN  /\ r_pc # "start" => DOMAIN success_map \cup Range(failed_list) = done
        /\ DOMAIN success_map \cap Range(failed_list) = {}
        /\ Len(failed_list) = Cardinality(Range(failed_list))
        /\ \A n \in SecurityNames : calls[n] <= 1
        /\ r_pc = "done" =>
              /\ DOMAIN success_map \cup Range(failed_list) = Range(securities)
              /\ \A n \in Range(securities) : calls[n] = 1
              /\ \A n \in SecurityNames \ Range(securities) : calls[n] = 0

\* C3 witness: a run over an input with a repeated name that ended with a
\* resolved and a failed name.
C3_Witness ==
    /\ r_pc = "done"
    /\ Len(securities) > Len(unique_securities)
    /\ success_map # <<>>
    /\ failed_list # <<>>

\* C4: a ticker is returned by find_working_ticker, and so put in success_map,
\* only after test_ticker(ticker, start_date, quick_test=False) returned True
\* for that ticker while the name was being resolved.
C4_OnlyProbedTickers ==
    /\ \A n \in DOMAIN success_map : <<n, success_map[n]>> \in okProbes
    /\ (r_pc = "return" /\ ticker # None) =>
          /\ probes # <<>>
          /\ probes[Len(probes)].ticker = ticker
          /\ probes[Len(probes)].ok
          /\ ~probes[Len(probes)].quick_test

\* C4 witness: a name whose validated ticker failed its probe and that was
\* resolved by a later variation.
C4_Witness ==
    /\ r_pc = "loop"
    /\ probes # <<>>
    /\ probes[1].source = "validated"
    /\ ~probes[1].ok
    /\ unique_securities[idx - 1] \in DOMAIN success_map

\* C17: while find_working_ticker resolves one security no ticker symbol is
\* probed more than once, and a time.sleep(0.1) separates every two consecutive
\* probes.
C17_NoRetryFixedSleep ==
    /\ \A j, k \in 1..Len(probes) : probes[j].ticker = probes[k].ticker => j = k
    /\ \A k \in 2..Len(probes) : probes[k].sleeps_before > probes[k - 1].sleeps_before

\* The positions of the probe history that come from a source.
ProbesFrom(source) == {k \in 1..Len(probes) : probes[k].source = source}

\* The tickers of the variation probes of the current call, in order.
VariationTickers ==
    LET first == Len(probes) - Cardinality(ProbesFrom("variation"))
    IN  [k \in 1..Cardinality(ProbesFrom("variation")) |-> probes[first + k].ticker]

\* The statements find_working_ticker can still execute before it returns: the
\* test of the validated ticker, then the iterations left of the loop.
StepsLeft ==
    IF r_pc = "validated" THEN 5
    ELSE IF r_pc = "variations" THEN 5 - vi
    ELSE 0

\* C19: resolving one security takes at most one probe of the validated ticker
\* and at most three probes of variations, the first three of the de-duplicated
\* list in list order; find_working_ticker returns the first ticker whose probe
\* succeeds, or None when every probe failed; and the call terminates: every
\* step it takes lowers the number of steps it has left, which is never
\* negative.
C19_BoundedProbes ==
    /\ [](InCall =>
            /\ Cardinality(ProbesFrom("validated")) <= 1
            /\ Cardinality(ProbesFrom("variation")) <= 3
            /\ Len(probes) <= 4
            /\ \A k \in ProbesFrom("validated") :
                  k = 1 /\ probes[k].ticker = get_validated_ticker(CurrentName)
            /\ LET vs == Dedupe(try_ticker_variations(clean_security_name(CurrentName)))
               IN  /\ Len(VariationTickers) <= Len(vs)
                   /\ VariationTickers = SubSeq(vs, 1, Len(VariationTickers))
            /\ r_pc = "return" =>
                  IF ticker = None
                  THEN \A k \in 1..Len(probes) : ~probes[k].ok
                  ELSE /\ probes # <<>>
                       /\ ticker = probes[Len(probes)].ticker
                       /\ \A k \in 1..Len(probes) : probes[k].ok = (k = Len(probes)))
    /\ [](StepsLeft \in 0..5 /\ (InCall /\ StepsLeft = 0 => r_pc = "return"))
    /\ [][(r_pc \in {"validated", "variations"}) => (StepsLeft' < StepsLeft)]_vars

\* C19 witness: a call that made the most probes it can make, the validated
\* ticker and three variations, and returned the last one.
C19_Witness ==
    /\ r_pc = "return"
    /\ ticker # None
    /\ Len(probes) = 4
    /\ Cardinality(ProbesFrom("validated")) = 1

----------------------------------------------------------------------------
(* smart_calculator.py: calculate_portfolio_with_partial_data              *)
(*                                                                         *)
(* A float is a fraction [n, d] in lowest terms with d > 0; d = 0 stands   *)
(* for the values a float division by zero produces: n = 1 or -1 for       *)
(* +inf or -inf, n = 0 for NaN.  Rounding is not modelled.                 *)

Abs(x) == IF x < 0 THEN -x ELSE x
Sign(x) == IF x > 0 THEN 1 ELSE IF x < 0 THEN -1 ELSE 0

RECURSIVE GCD(_, _)
GCD(a, b) == IF b = 0 THEN a ELSE GCD(b, a % b)

NaN == [n |-> 0, d |-> 0]
Inf(sign) == [n |-> sign, d |-> 0]
IsNaN(x) == x.d = 0 /\ x.n = 0
IsFinite(x) == x.d > 0

\* n/d with d > 0, in lowest terms
Frac(n, d) == LET g == GCD(Abs(n), d) IN [n |-> n \div g, d |-> d \div g]

Float(x) == [n |-> x, d |-> 1]

FloatAdd(a, b) ==
    IF IsNaN(a) \/ IsNaN(b) THEN NaN
    ELSE IF a.d = 0 /\ b.d = 0 THEN (IF a.n = b.n THEN a ELSE NaN)
    ELSE IF a.d = 0 THEN a
    ELSE IF b.d = 0 THEN b
    ELSE Frac(a.n * b.d + b.n * a.d, a.d * b.d)

FloatMul(a, b) ==
    IF IsNaN(a) \/ IsNaN(b) THEN NaN
    ELSE IF a.d = 0 \/ b.d = 0
         THEN (IF a.n = 0 \/ b.n = 0 THEN NaN ELSE Inf(Sign(a.n) * Sign(b.n)))
    ELSE Frac(a.n * b.n, a.d * b.d)

FloatDiv(a, b) ==
    IF IsNaN(a) \/ IsNaN(b) THEN NaN
    ELSE IF a.d = 0 /\ b.d = 0 THEN NaN
    ELSE IF a.d = 0 THEN (IF b.n < 0 THEN Inf(-a.n) ELSE a)
    ELSE IF b.d = 0 THEN Float(0)
    ELSE IF b.n = 0 THEN (IF a.n = 0 THEN NaN ELSE Inf(Sign(a.n)))
    ELSE Frac(a.n * b.d * Sign(b.n), a.d * Abs(b.n))

Max(S) == CHOOSE x \in S : \A y \in S : y <= x

RECURSIVE SortedSeq(_)
\* sorted(S)
SortedSeq(S) ==
    IF S = {} THEN <<>>
    ELSE LET m == CHOOSE x \in S : \A y \in S : x <= y
         IN  <<m>> \o SortedSeq(S \ {m})

RECURSIVE SumSeq(_)
SumSeq(xs) == IF xs = <<>> THEN 0 ELSE Head(xs) + SumSeq(Tail(xs))

\* df[column].sum()
SumValue(rows) == SumSeq([k \in 1..Len(rows) |-> rows[k].Value])

\* The investor names, in ascending order.
InvestorOrder == <<"A", "B">>
Investors == Range(InvestorOrder)
Securities == {"S1", "S2", "S3"}

\* (Holding, Demat Holding Vlaue (Rs.)) of a row
HoldingChoices == {<<1, 0>>, <<2, 3>>}

HoldingRows ==
    {[NAME |-> i, Security |-> sec, Holding |-> h[1], Value |-> h[2]] :
        i \in Investors, sec \in Securities, h \in HoldingChoices}

\* Monthly price series: complete, starting a month late, and with a month missing.
FullSeries == (1 :> 2) @@ (2 :> 3) @@ (3 :> 5)
LateSeries == (2 :> 4) @@ (3 :> 6)
GapSeries == (1 :> 1) @@ (3 :> 2)

\* The cache holds a series for S1, for S2 or not, and never for S3.
StockDataChoices ==
    {[S1 |-> LateSeries],
     [S1 |-> GapSeries, S2 |-> LateSeries],
     [S1 |-> LateSeries, S2 |-> FullSeries],
     [S1 |-> GapSeries, S2 |-> FullSeries]}

MaxRows == 3

\* main.py lines 128-131: the sorted union of the indexes of the series
AllDates(sd) == SortedSeq(UNION {DOMAIN sd[sec] : sec \in DOMAIN sd})

InitValuator ==
    /\ IdleMatcher
    /\ IdleFund
    /\ IdleLoader
    /\ IdleReports
    /\ IdleResolver
    /\ IdleScraper
    /\ IdleMain
    /\ holdings_df \in SeqsUpTo(HoldingRows, MaxRows)
    /\ stock_data \in StockDataChoices
    /\ dates = AllDates(stock_data)
    /\ v_pc = "start"
    /\ groups = <<>>
    /\ gi = 0
    /\ investor_portfolios = <<>>
    /\ tracked = <<>>

\* A reindex without method='ffill': only the dates the series has get a price.
Reindex_NoFill(prices, ds) ==
    [d \in Range(ds) |-> IF d \in DOMAIN prices THEN Float(prices[d]) ELSE NaN]

\* prices.reindex(dates, method='ffill'): the entry of the last index label at or
\* before each date, NaN before the first label
Reindex(prices, ds) ==
    [d \in Range(ds) |->
        LET at == {i \in DOMAIN prices : i <= d}
        IN  IF at = {} THEN NaN ELSE Float(prices[Max(at)])]

\* series.fillna(0)
FillNa0(series) == [d \in DOMAIN series |-> IF IsNaN(series[d]) THEN Float(0) ELSE series[d]]

\* lines 30-32 for one row
StockValue(row, ds) ==
    LET aligned_prices == Reindex(stock_data[row.Security], ds)
    IN  [d \in DOMAIN aligned_prices |-> FloatMul(aligned_prices[d], Float(row.Holding))]

RECURSIVE PortfolioWithData(_, _)
\* lines 23-33: pd.Series(0.0, index=dates) plus the value of every row with data
PortfolioWithData(rows, ds) ==
    IF rows = <<>> THEN [d \in Range(ds) |-> Float(0)]
    ELSE LET before == PortfolioWithData(SubSeq(rows, 1, Len(rows) - 1), ds)
             stock_value == FillNa0(StockValue(rows[Len(rows)], ds))
         IN  [d \in Range(ds) |-> FloatAdd(before[d], stock_value[d])]

\* An estimate that takes the growth relative to the last date instead of the first.
WithEstimate_LastDate(portfolio_with_data, with_data, without_data, ds) ==
    IF Len(without_data) > 0 /\ SumValue(with_data) > 0 /\ Len(ds) > 0
    THEN [d \in Range(ds) |->
            FloatAdd(portfolio_with_data[d],
                     FloatMul(Float(SumValue(without_data)),
                              FloatDiv(portfolio_with_data[d],
                                       portfolio_with_data[ds[Len(ds)]])))]
    ELSE portfolio_with_data

\* An estimate made whenever a holding lacks data, whatever the covered value.
WithEstimate_Unguarded(portfolio_with_data, with_data, without_data, ds) ==
    IF Len(without_data) > 0 /\ Len(ds) > 0
    THEN [d \in Range(ds) |->
            FloatAdd(portfolio_with_data[d],
                     FloatMul(Float(SumValue(without_data)),
                              FloatDiv(portfolio_with_data[d],
                                       portfolio_with_data[ds[1]])))]
    ELSE portfolio_with_data

\* lines 36-46: the estimate for the holdings without data, when it is made
WithEstimate(portfolio_with_data, with_data, without_data, ds) ==
    LET current_value_without_data == SumValue(without_data)
        current_value_with_data == SumValue(with_data)
    IN  IF Len(without_data) > 0 /\ current_value_with_data > 0 /\ Len(ds) > 0
        THEN LET growth_ratio == [d \in Range(ds) |->
                                    FloatDiv(portfolio_with_data[d],
                                             portfolio_with_data[ds[1]])]
                 estimated_values == [d \in Range(ds) |->
                                        FloatMul(Float(current_value_without_data),
                                                 growth_ratio[d])]
             IN  [d \in Range(ds) |-> FloatAdd(portfolio_with_data[d], estimated_values[d])]
        ELSE portfolio_with_data

HasData(row) == row.Security \in DOMAIN stock_data
HasNoData(row) == row.Security \notin DOMAIN stock_data

\* line 17: groupby('NAME') yields the investors in ascending order
ValStart ==
    /\ v_pc = "start"
    /\ LET IsKey(name) == \E k \in 1..Len(holdings_df) : holdings_df[k].NAME = name
       IN  groups' = SelectSeq(InvestorOrder, IsKey)
    /\ gi' = 1
    /\ investor_portfolios' = <<>>
    /\ v_pc' = "loop"
    /\ UNCHANGED <<holdings_df, stock_data, dates, tracked>>
    /\ UNCHANGED notValuator

\* lines 17-48: one investor
ValueInvestor ==
    /\ v_pc = "loop"
    /\ gi <= Len(groups)
    /\ LET investor_name == groups[gi]
           IsInvestor(row) == row.NAME = investor_name
           group == SelectSeq(holdings_df, IsInvestor)
           holdings_with_data == SelectSeq(group, HasData)
           holdings_without_data == SelectSeq(group, HasNoData)
           portfolio_with_data == PortfolioWithData(holdings_with_data, dates)
           final == WithEstimate(portfolio_with_data, holdings_with_data,
                                 holdings_without_data, dates)
       IN  /\ investor_portfolios' =
                [i \in DOMAIN investor_portfolios \cup {investor_name} |->
                    IF i = investor_name THEN final ELSE investor_portfolios[i]]
           /\ tracked' =
                [i \in DOMAIN tracked \cup {investor_name} |->
                    IF i = investor_name THEN portfolio_with_data ELSE tracked[i]]
    /\ gi' = gi + 1
    /\ UNCHANGED <<holdings_df, stock_data, dates, v_pc, groups>>
    /\ UNCHANGED notValuator

\* line 50
ValReturn ==
    /\ v_pc = "loop"
    /\ gi > Len(groups)
    /\ v_pc' = "done"
    /\ UNCHANGED <<holdings_df, stock_data, dates, groups, gi, investor_portfolios,
                   tracked>>
    /\ UNCHANGED notValuator

NextValuator ==
    \/ ValStart
    \/ ValueInvestor
    \/ ValReturn

SpecValuator == InitValuator /\ [][NextValuator]_vars

----------------------------------------------------------------------------
(* Properties of the valuator.                                             *)

RowsOf(i) == {k \in 1..Len(holdings_df) : holdings_df[k].NAME = i}
CoveredRows(i) == {k \in RowsOf(i) : holdings_df[k].Security \in DOMAIN stock_data}
UncoveredRows(i) == RowsOf(i) \ CoveredRows(i)

RECURSIVE SumOver(_, _)
SumOver(S, f) ==
    IF S = {} THEN 0
    ELSE LET k == CHOOSE x \in S : TRUE IN f[k] + SumOver(S \ {k}, f)

\* The most recent price of a series at or before d, 0 when there is none.
LastPriceOrZero(prices, d) ==
    IF \E j \in DOMAIN prices : j <= d
    THEN prices[CHOOSE j \in DOMAIN prices :
                    j <= d /\ \A j2 \in DOMAIN prices : j2 <= d => j2 <= j]
    ELSE 0

\* Quantity times forward-filled price, summed over the investor's covered rows.
TrackedValue(i, d) ==
    SumOver(CoveredRows(i),
            [k \in CoveredRows(i) |->
                holdings_df[k].Holding
                    * LastPriceOrZero(stock_data[holdings_df[k].Security], d)])

\* Current value of the investor's chosen rows.
CurrentValue(S) == SumOver(S, [k \in S |-> holdings_df[k].Value])

Valued == DOMAIN investor_portfolios

C6_EstimateFormula ==
    \A i \in Valued :
        (UncoveredRows(i) # {} /\ CurrentValue(CoveredRows(i)) > 0) =>
            \A d \in Range(dates) :
                LET v == investor_portfolios[i][d]
                    t == TrackedValue(i, d)
                    t0 == TrackedValue(i, dates[1])
                    U == CurrentValue(UncoveredRows(i))
                IN  IF t0 # 0
                    THEN v.d > 0 /\ v.n * t0 = v.d * (t * t0 + U * t)
                    ELSE v.d = 0 /\ v.n = (IF t > 0 /\ U > 0 THEN 1 ELSE 0)

\* C6 witness: an estimate with U > 0 over a covered portion that grew.
C6_Witness ==
    /\ v_pc = "done"
    /\ \E i \in Valued :
          /\ UncoveredRows(i) # {}
          /\ CurrentValue(CoveredRows(i)) > 0
          /\ CurrentValue(UncoveredRows(i)) > 0
          /\ TrackedValue(i, dates[1]) > 0
          /\ \E d \in Range(dates) :
                /\ TrackedValue(i, d) > TrackedValue(i, dates[1])
                /\ investor_portfolios[i][d].d > 1

\* C7 as the spec states it: every investor whose uncovered holdings have a
\* non-zero current value gets a non-zero estimate term for them in the series.
C7_AlwaysEstimated ==
    \A i \in Valued :
        (UncoveredRows(i) # {} /\ CurrentValue(UncoveredRows(i)) # 0) =>
            \E d \in Range(dates) : investor_portfolios[i][d] # tracked[i][d]

\* C7, amended: the estimate is made exactly for the investors with a holding
\* without data whose covered holdings have a positive current value, and is then
\* non-zero wherever U and the tracked value are non-zero; every other investor's
\* series is the tracked value alone, the uncovered holdings counting as zero.
C7_EstimatedWhenCovered ==
    \A i \in Valued :
        IF UncoveredRows(i) # {} /\ CurrentValue(CoveredRows(i)) > 0
        THEN \A d \in Range(dates) :
                (CurrentValue(UncoveredRows(i)) # 0 /\ TrackedValue(i, d) # 0) =>
                    investor_portfolios[i][d] # [n |-> TrackedValue(i, d), d |-> 1]
        ELSE \A d \in Range(dates) :
                investor_portfolios[i][d] = [n |-> TrackedValue(i, d), d |-> 1]

\* C7 witness: an investor none of whose holdings has a price series, valued at
\* zero, next to an investor who got an estimate.
C7_Witness ==
    /\ v_pc = "done"
    /\ \E i \in Valued :
          /\ CoveredRows(i) = {}
          /\ CurrentValue(UncoveredRows(i)) > 0
          /\ \A d \in Range(dates) : investor_portfolios[i][d] = [n |-> 0, d |-> 1]
    /\ \E i \in Valued :
          /\ UncoveredRows(i) # {}
          /\ CurrentValue(CoveredRows(i)) > 0
          /\ \E d \in Range(dates) : investor_portfolios[i][d] # tracked[i][d]

----------------------------------------------------------------------------
(* tools/data_scraper.py: scrape_all_stocks                                *)

AlnumChars ==
    {"A", "B", "C", "D", "E", "F", "G", "H", "I", "J", "K", "L", "M", "N", "O", "P", "Q",
     "R", "S", "T", "U", "V", "W", "X", "Y", "Z", "a", "b", "c", "d", "e", "i", "l", "m",
     "t", "0", "1", "2", "3", "4", "5", "6", "7", "8", "9"}

FilenameLimit == 50

SavePeriod == 10

RECURSIVE KeepFilenameChars(_)
\* ''.join(c for c in clean if c.isalnum() or c == '_')
KeepFilenameChars(cs) ==
    IF cs = <<>> THEN <<>>
    ELSE IF Head(cs) \in AlnumChars \/ Head(cs) = "_"
         THEN <<Head(cs)>> \o KeepFilenameChars(Tail(cs))
         ELSE KeepFilenameChars(Tail(cs))

\* get_price_filename, without the directory
get_price_filename(security_name) ==
    LET replaced == [k \in 1..Len(security_name) |->
                        IF security_name[k] \in {"/", "\\", " "}
                        THEN "_" ELSE security_name[k]]
        clean == KeepFilenameChars(replaced)
    IN  SubSeq(clean, 1, Min(Len(clean), FilenameLimit)) \o <<".", "c", "s", "v">>

A_SLASH_B_C_LTD == <<"A", "/", "B", " ", "C", " ", "L", "T", "D">>

\* The resolved securities a run can be asked to download, in dictionary order;
\* the first two share a price file name.
ResolvedOrder ==
    << <<A_B_C_LTD, <<"A", ".", "N", "S">> >>,
       <<A_SLASH_B_C_LTD, <<"A", ".", "B", "O">> >>,
       <<TCS_EQ_NEW, <<"T", "C", "S", ".", "N", "S">> >> >>

\* The entries of xs at the positions S, in order
Pick(xs, S) == LET at == SortedSeq(S) IN [k \in 1..Len(at) |-> xs[at[k]]]

TickerMaps == {Pick(ResolvedOrder, S) : S \in SUBSET (1..Len(ResolvedOrder))}

MaxRuns == 2

\* What yfinance answers to one download.
DownloadOutcomes == {"rows", "empty", "raises"}

\* download_stock_data: the monthly series, empty when there is no row or the
\* download raises (lines 57-72); only its length is modelled
download_stock_data(outcome) == IF outcome = "rows" THEN 1 ELSE 0

\* load_download_state, lines 27-30
load_download_state == IF state_file.exists THEN state_file.content ELSE EmptyState

\* save_download_state
SavedFile(st) == [exists |-> TRUE, content |-> st]

is_already_downloaded(security_name, st) == security_name \in DOMAIN st.downloaded

\* list.remove(x): the first occurrence goes
RemoveFirst(xs, x) ==
    LET at == CHOOSE k \in 1..Len(xs) : xs[k] = x /\ \A j \in 1..(k - 1) : xs[j] # x
    IN  SubSeq(xs, 1, at - 1) \o SubSeq(xs, at + 1, Len(xs))

InitScraper ==
    /\ IdleMatcher
    /\ IdleFund
    /\ IdleLoader
    /\ IdleReports
    /\ IdleResolver
    /\ IdleValuator
    /\ IdleMain
    /\ IdleScraper

\* lines 81-101: a call of scrape_all_stocks, up to the loop or the early return
ScrapeStart(tm, force) ==
    /\ s_pc \in {"idle", "returned", "returned_early"}
    /\ runs < MaxRuns
    /\ runs' = runs + 1
    /\ ticker_map' = tm
    /\ force_redownload' = force
    /\ state' = load_download_state
    /\ LET already_done ==
              Cardinality({k \in 1..Len(tm) : is_already_downloaded(tm[k][1], state')})
       IN  IF ~force /\ already_done = Len(tm)
           THEN s_pc' = "returned_early"
           ELSE s_pc' = "loop"
    /\ si' = 1
    /\ counts' = ZeroCounts
    /\ downloads' = <<>>
    /\ uncached' = {tm[k][1] : k \in {j \in 1..Len(tm) :
                        ~(/\ is_already_downloaded(tm[j][1], state')
                          /\ get_price_filename(tm[j][1]) \in price_files)}}
    /\ UNCHANGED <<state_file, price_files>>
    /\ UNCHANGED notScraper

\* A cache test that does not look at force_redownload.
Cached_IgnoreForce(security_name) ==
    /\ is_already_downloaded(security_name, state)
    /\ get_price_filename(security_name) \in price_files

\* lines 111-114: the security is cached and the run is not forced
Cached(security_name) ==
    /\ ~force_redownload
    /\ is_already_downloaded(security_name, state)
    /\ get_price_filename(security_name) \in price_files

\* lines 110-117: a cached security is skipped
ScrapeSkip ==
    /\ s_pc = "loop"
    /\ si <= Len(ticker_map)
    /\ Cached(ticker_map[si][1])
    /\ counts' = [counts EXCEPT !.skipped_count = @ + 1]
    /\ si' = si + 1
    /\ UNCHANGED <<uncached, ticker_map, force_redownload, s_pc, state, state_file, price_files,
                   downloads, runs>>
    /\ UNCHANGED notScraper

\* A download failure that always appends the name to state['failed'].
FailedAfter_Append(failed, security_name, ok) ==
    IF ok
    THEN (IF security_name \in Range(failed) THEN RemoveFirst(failed, security_name)
          ELSE failed)
    ELSE Append(failed, security_name)

\* lines 138-139 and 145-146: state['failed'] after a download
FailedAfter(failed, security_name, ok) ==
    IF ok
    THEN (IF security_name \in Range(failed) THEN RemoveFirst(failed, security_name)
          ELSE failed)
    ELSE (IF security_name \notin Range(failed) THEN Append(failed, security_name)
          ELSE failed)

\* lines 119-153: one download, its bookkeeping and the periodic save
ScrapeDownload(outcome) ==
    /\ s_pc = "loop"
    /\ si <= Len(ticker_map)
    /\ ~Cached(ticker_map[si][1])
    /\ LET security_name == ticker_map[si][1]
           filename == get_price_filename(security_name)
           ok == download_stock_data(outcome) > 0
       IN  /\ downloads' = Append(downloads, [name |-> security_name, ok |-> ok])
           /\ price_files' = IF ok THEN price_files \cup {filename} ELSE price_files
           /\ state' =
                [downloaded |->
                    IF ok
                    THEN [n \in DOMAIN state.downloaded \cup {security_name} |->
                            IF n = security_name
                            THEN [ticker |-> ticker_map[si][2], file |-> filename]
                            ELSE state.downloaded[n]]
                    ELSE state.downloaded,
                 failed |-> FailedAfter(state.failed, security_name, ok)]
           /\ counts' = IF ok THEN [counts EXCEPT !.success_count = @ + 1]
                              ELSE [counts EXCEPT !.failed_count = @ + 1]
    /\ state_file' =
          IF (counts'.success_count + counts'.failed_count) % SavePeriod = 0
          THEN SavedFile(state') ELSE state_file
    /\ si' = si + 1
    /\ UNCHANGED <<uncached, ticker_map, force_redownload, s_pc, runs>>
    /\ UNCHANGED notScraper

\* lines 155-169: the final save and the return
ScrapeFinish ==
    /\ s_pc = "loop"
    /\ si > Len(ticker_map)
    /\ state_file' = SavedFile(state)
    /\ s_pc' = "returned"
    /\ UNCHANGED <<uncached, ticker_map, force_redownload, state, price_files, si, counts,
                   downloads, runs>>
    /\ UNCHANGED notScraper

\* Between two runs a price file is removed from the data directory.
PriceFileRemoved(f) ==
    /\ s_pc \in {"returned", "returned_early"}
    /\ f \in price_files
    /\ price_files' = price_files \ {f}
    /\ UNCHANGED <<uncached, ticker_map, force_redownload, s_pc, state, state_file, si, counts,
                   downloads, runs>>
    /\ UNCHANGED notScraper

NextScraper ==
    \/ \E tm \in TickerMaps, force \in BOOLEAN : ScrapeStart(tm, force)
    \/ ScrapeSkip
    \/ \E outcome \in DownloadOutcomes : ScrapeDownload(outcome)
    \/ ScrapeFinish
    \/ \E f \in price_files : PriceFileRemoved(f)

SpecScraper == InitScraper /\ [][NextScraper]_vars

----------------------------------------------------------------------------
(* Properties of the scraper.                                              *)

NoDuplicates(xs) == \A j, k \in 1..Len(xs) : xs[j] = xs[k] => j = k

\* The positions of ticker_map the loop has passed.
Passed == IF s_pc = "returned" THEN 1..Len(ticker_map)
          ELSE IF s_pc = "loop" THEN 1..(si - 1)
          ELSE {}

\* C9: a failed download (it raises or has no row) does not end the run:
\* state['failed'] holds the security, holds no name twice, the loop goes on to
\* the next position, and a run that returns from the loop has passed every
\* position of ticker_map, each one downloaded or skipped.
C9_FailedFetchRecorded ==
    /\ NoDuplicates(state.failed)
    /\ \A k \in 1..Len(downloads) :
          ~downloads[k].ok => downloads[k].name \in Range(state.failed)
    /\ s_pc \in {"loop", "returned"} =>
          /\ si \in 1..(Len(ticker_map) + 1)
          /\ s_pc = "returned" => si = Len(ticker_map) + 1
          /\ Len(downloads) + counts.skipped_count = Cardinality(Passed)
          /\ Len(downloads) = counts.success_count + counts.failed_count
          /\ \A k \in 1..Len(downloads) :
                \E j \in Passed : ticker_map[j][1] = downloads[k].name
    /\ s_pc = "returned" => state_file = SavedFile(state)

\* C9 witness: a second run fails again on a security the state file already
\* lists as failed, and has gone on to download the next security.
C9_Witness ==
    /\ s_pc = "loop"
    /\ state_file.exists
    /\ \E k \in 1..Len(downloads) :
          /\ ~downloads[k].ok
          /\ downloads[k].name \in Range(state_file.content.failed)
          /\ k < Len(downloads)
          /\ downloads[k + 1].ok

\* The securities downloaded so far in the run, in order.
DownloadedNames == [k \in 1..Len(downloads) |-> downloads[k].name]

\* A step that attempts a download.
DownloadStep == Len(downloads') = Len(downloads) + 1

\* C16: in a run that is not forced, no download is attempted for a security
\* that is recorded in state['downloaded'] and whose price file exists; a forced
\* run attempts one download for every security of ticker_map, in order.
C16_OnlyUncachedDownloaded ==
    /\ [][(DownloadStep /\ ~force_redownload) =>
             LET security_name == downloads'[Len(downloads')].name
             IN  ~(/\ security_name \in DOMAIN state.downloaded
                   /\ get_price_filename(security_name) \in price_files)]_vars
    /\ []((force_redownload /\ s_pc \in {"loop", "returned"}) =>
             /\ s_pc = "loop" =>
                   DownloadedNames = [k \in 1..(si - 1) |-> ticker_map[k][1]]
             /\ s_pc = "returned" =>
                   DownloadedNames = [k \in 1..Len(ticker_map) |-> ticker_map[k][1]])

\* C16 witness: a forced second run has returned after it downloaded, without
\* success, a security that was recorded and had its price file, and a second
\* security after it.
C16_Witness ==
    /\ s_pc = "returned"
    /\ force_redownload
    /\ Len(downloads) >= 2
    /\ ~downloads[1].ok
    /\ downloads[1].name \in DOMAIN state.downloaded
    /\ get_price_filename(downloads[1].name) \in price_files

\* The download attempts of the current run for a security.
AttemptsOf(security_name) == {k \in 1..Len(downloads) : downloads[k].name = security_name}

\* C20: when a run that is not forced has returned, every security of
\* ticker_map that was not cached when the run was called (not recorded in
\* state['downloaded'], or recorded but without its price file) has had exactly
\* one download attempt.
C20_UncachedDownloadedOnce ==
    (s_pc \in {"returned", "returned_early"} /\ ~force_redownload) =>
        \A security_name \in uncached : Cardinality(AttemptsOf(security_name)) = 1

\* C25: after any sequence of runs no security name is at the same time a key
\* of state['downloaded'] and an element of state['failed'], in the state the
\* run returns and in the state file it saved.
C25_DownloadedFailedDisjoint ==
    s_pc \in {"returned", "returned_early"} =>
        /\ DOMAIN state.downloaded \cap Range(state.failed) = {}
        /\ state_file.exists =>
              DOMAIN state_file.content.downloaded \cap Range(state_file.content.failed) = {}

----------------------------------------------------------------------------
(* main.py: main, with data_loader.py and market_data.py                   *)

\* len(series)
Length(series) == Cardinality(DOMAIN series)

\* pd.Series(0, index=index)
ZeroSeries(index) == [d \in index |-> Float(0)]

\* series.iloc[0] and series.iloc[-1] of a series kept in index order
First(series) == series[CHOOSE d \in DOMAIN series : \A e \in DOMAIN series : d <= e]
Last(series) == series[Max(DOMAIN series)]

\* series.reindex(index, method='ffill') of a float series
ReindexSeries(series, index) ==
    [d \in index |->
        LET at == {i \in DOMAIN series : i <= d}
        IN  IF at = {} THEN NaN ELSE series[Max(at)]]

\* series.pct_change(): the change relative to the previous entry, NaN for the first
pct_change(series) ==
    [d \in DOMAIN series |->
        LET before == {j \in DOMAIN series : j < d}
        IN  IF before = {} THEN NaN
            ELSE FloatAdd(FloatDiv(series[d], series[Max(before)]), Float(-1))]

RECURSIVE FloatProduct(_, _)
FloatProduct(S, f) ==
    IF S = {} THEN Float(1)
    ELSE LET k == Max(S) IN FloatMul(FloatProduct(S \ {k}, f), f[k])

RECURSIVE FloatSum(_, _)
FloatSum(S, f) ==
    IF S = {} THEN Float(0)
    ELSE LET k == CHOOSE x \in S : TRUE IN FloatAdd(f[k], FloatSum(S \ {k}, f))

\* (1 + returns).cumprod() - 1
Cumulative(returns) ==
    [d \in DOMAIN returns |->
        FloatAdd(FloatProduct({j \in DOMAIN returns : j <= d},
                              [j \in DOMAIN returns |-> FloatAdd(Float(1), returns[j])]),
                 Float(-1))]

\* main.py lines 25-64
calculate_fund_returns(sd, keys, fund_weights) ==
    IF DOMAIN fund_weights = {} THEN <<>>
    ELSE LET total_weight == SumOver(DOMAIN fund_weights, fund_weights)
         IN  IF total_weight = 0 THEN <<>>
             ELSE IF DOMAIN sd = {} THEN <<>>
             ELSE LET normalized_weights ==
                          [k \in DOMAIN fund_weights |-> Frac(fund_weights[k], total_weight)]
                      first_security == keys[1]
                      index == DOMAIN sd[first_security]
                      returns(security) ==
                          FillNa0(pct_change(Reindex(sd[security], SortedSeq(index))))
                      fund_return ==
                          [d \in index |->
                              FloatSum(DOMAIN fund_weights \cap DOMAIN sd,
                                       [security \in DOMAIN fund_weights \cap DOMAIN sd |->
                                           FloatMul(returns(security)[d],
                                                    normalized_weights[security])])]
                  IN  Cumulative(fund_return)

\* The holdings tables load_holdings_data can return: no row, one investor, two
\* investors of whom one holds a security that is never priced.
MainHoldings ==
    {<<>>,
     <<[NAME |-> "A", Security |-> "S1", Holding |-> 2, Value |-> 3]>>,
     <<[NAME |-> "A", Security |-> "S1", Holding |-> 2, Value |-> 3],
       [NAME |-> "A", Security |-> "S3", Holding |-> 1, Value |-> 0],
       [NAME |-> "B", Security |-> "S2", Holding |-> 2, Value |-> 3]>>}

\* What load_holdings_data meets: the file cannot be read (line 53 raises), a
\* required column is not detected (line 64 raises), or the table is built.
LoadOutcomes == {"unreadable", "missing_column", "loaded"}

\* The pairs (multi cap, mid and small cap) a readable weights sheet gives; in the
\* second the columns of the first fund are not found (lines 170-173).
WeightChoices ==
    {<<[S1 |-> 60, S2 |-> 40], [S2 |-> 1, S3 |-> 3]>>,
     <<<<>>, [S1 |-> 1]>>}

\* What load_both_funds_from_sheet meets: an exception (line 213), a fund section
\* that is not found (line 127), or a sheet with both sections.
WeightOutcomes == {"error", "missing_section", "sheet"}

\* data_loader.py lines 103-217
load_both_funds_from_sheet(outcome, sheet) ==
    IF outcome = "sheet" THEN sheet ELSE <<<<>>, <<>>>>

\* What load_scraped_data can return: nothing, a series without a row, or prices.
MainStockChoices ==
    StockDataChoices \cup {<<>>, [S1 |-> <<>>], [S1 |-> <<>>, S2 |-> FullSeries]}

\* The orders a dictionary with the keys S can have.
KeyOrders(S) ==
    {ks \in [1..Cardinality(S) -> S] : \A j, k \in 1..Cardinality(S) : ks[j] = ks[k] => j = k}

\* market_data.py line 54
nifty_symbols == {"NIFTY 50", "NIFTY Midcap 100", "NIFTY 100"}

\* market_data.py lines 49-74: an index is in the result when its history has rows
fetch_nifty_data(outcomes, series) ==
    [name \in {n \in nifty_symbols : outcomes[n] = "rows"} |-> series]

\* main.py lines 181-197
NiftyReturns(nd, index) ==
    IF DOMAIN nd = {} \/ "NIFTY 50" \notin DOMAIN nd
    THEN ZeroSeries(index)
    ELSE LET nifty_data == [d \in DOMAIN nd["NIFTY 50"] |-> Float(nd["NIFTY 50"][d])]
             nifty_cumulative == Cumulative(FillNa0(pct_change(nifty_data)))
         IN  FillNa0(ReindexSeries(nifty_cumulative, index))

\* main.py lines 150-159
InvestorReturns(portfolios, ds) ==
    LET total ==
          IF Cardinality(DOMAIN portfolios) > 1
          THEN [d \in Range(ds) |->
                   FloatSum(DOMAIN portfolios, [i \in DOMAIN portfolios |-> portfolios[i][d]])]
          ELSE portfolios[CHOOSE i \in DOMAIN portfolios : TRUE]
    IN  [d \in DOMAIN total |-> FloatAdd(FloatDiv(total[d], First(total)), Float(-1))]

\* Empty fund returns are passed on as they are.
OrZeros_Keep(returns, index) == returns

\* main.py lines 203-206
OrZeros(returns, index) == IF Length(returns) = 0 THEN ZeroSeries(index) ELSE returns

\* visualizer.create_fund_comparison_chart: the figure draws the four series
create_fund_comparison_chart(investor, nifty, multi_cap, mid_small) ==
    [investor_returns |-> investor, nifty_returns |-> nifty,
     multi_cap_returns |-> multi_cap, mid_small_returns |-> mid_small]

\* main.py lines 223-228, one entry
FinalReturn(series) ==
    IF Length(series) > 0 THEN FloatMul(Last(series), Float(100)) ELSE Float(0)

InitMain ==
    /\ IdleMatcher
    /\ IdleFund
    /\ IdleLoader
    /\ IdleReports
    /\ IdleResolver
    /\ IdleScraper
    /\ IdleValuator
    /\ m_pc = "start"
    /\ MainLocals

\* A load stage that goes on to the fund weights with a table without rows.
MainLoadHoldings_NoEmptyCheck(outcome, table) ==
    /\ m_pc = "start"
    /\ load_outcome' = outcome
    /\ stages' = Append(stages, "load")
    /\ IF outcome # "loaded"
       THEN /\ m_pc' = "raised"
            /\ m_exit' = IF outcome = "unreadable" THEN "read_excel error"
                         ELSE "ValueError: Missing required columns"
            /\ UNCHANGED holdings_df
       ELSE /\ holdings_df' = table
            /\ m_pc' = "weights" /\ UNCHANGED m_exit
    /\ UNCHANGED <<stock_data, dates, v_pc, groups, gi, investor_portfolios, tracked>>
    /\ UNCHANGED <<multi_cap_weights, mid_small_weights, resolved, scraped,
                   scraper_stats, stock_keys,
                   investor_returns, multi_cap_returns, mid_small_returns, nifty_data_dict,
                   nifty_returns, chart, final_returns>>
    /\ UNCHANGED notMain

\* main.py lines 72-77 with data_loader.py lines 45-100: the exception handler of
\* load_holdings_data prints and raises again, and main has no handler
MainLoadHoldings(outcome, table) ==
    /\ m_pc = "start"
    /\ load_outcome' = outcome
    /\ stages' = Append(stages, "load")
    /\ IF outcome # "loaded"
       THEN /\ m_pc' = "raised"
            /\ m_exit' = IF outcome = "unreadable" THEN "read_excel error"
                         ELSE "ValueError: Missing required columns"
            /\ UNCHANGED holdings_df
       ELSE /\ holdings_df' = table
            /\ IF Len(table) = 0
               THEN m_pc' = "returned" /\ m_exit' = "No holdings data loaded"
               ELSE m_pc' = "weights" /\ UNCHANGED m_exit
    /\ UNCHANGED <<stock_data, dates, v_pc, groups, gi, investor_portfolios, tracked>>
    /\ UNCHANGED <<multi_cap_weights, mid_small_weights, resolved, scraped,
                   scraper_stats, stock_keys,
                   investor_returns, multi_cap_returns, mid_small_returns, nifty_data_dict,
                   nifty_returns, chart, final_returns>>
    /\ UNCHANGED notMain

\* main.py lines 79-81
MainLoadWeights(outcome, sheet) ==
    /\ m_pc = "weights"
    /\ multi_cap_weights' = load_both_funds_from_sheet(outcome, sheet)[1]
    /\ mid_small_weights' = load_both_funds_from_sheet(outcome, sheet)[2]
    /\ stages' = Append(stages, "weights")
    /\ m_pc' = "resolve"
    /\ UNCHANGED valuatorVars
    /\ UNCHANGED <<load_outcome, resolved, scraped,
                   scraper_stats, stock_keys, investor_returns,
                   multi_cap_returns, mid_small_returns, nifty_data_dict, nifty_returns,
                   chart, final_returns, m_exit>>
    /\ UNCHANGED notMain

\* main.py lines 86-92
all_securities ==
    {holdings_df[k].Security : k \in 1..Len(holdings_df)}
        \cup DOMAIN multi_cap_weights \cup DOMAIN mid_small_weights

\* main.py lines 83-102: resolve_all_tickers finds a ticker for some of the names
MainResolve(found) ==
    /\ m_pc = "resolve"
    /\ found \subseteq all_securities
    /\ resolved' = found
    /\ stages' = Append(stages, "resolve")
    /\ m_pc' = "acquire"
    /\ UNCHANGED valuatorVars
    /\ UNCHANGED <<load_outcome, multi_cap_weights, mid_small_weights, scraped,
                   scraper_stats, stock_keys,
                   investor_returns, multi_cap_returns, mid_small_returns, nifty_data_dict,
                   nifty_returns, chart, final_returns, m_exit>>
    /\ UNCHANGED notMain

\* A main that downloads whatever the state lists.
NeedsDownload_Always(total_downloaded) == TRUE

\* main.py line 109: the else branch is taken, and scrape_all_stocks called,
\* when scraper_stats['total_downloaded'] > 0 is false
NeedsDownload(total_downloaded) == ~(total_downloaded > 0)

\* main.py lines 104-142: the download happens when the state lists no security
\* (line 109); then the early returns of lines 118 and 133, or the call of line 138
MainAcquire(total_downloaded, sd, keys) ==
    /\ m_pc = "acquire"
    /\ keys \in KeyOrders(DOMAIN sd)
    /\ total_downloaded = 0 => DOMAIN sd \subseteq resolved
    /\ scraper_stats' = total_downloaded
    /\ scraped' = NeedsDownload(total_downloaded)
    /\ stock_data' = sd
    /\ stock_keys' = keys
    /\ stages' = Append(stages, "acquire")
    /\ IF DOMAIN sd = {}
       THEN /\ m_pc' = "returned" /\ m_exit' = "No stock data available"
            /\ UNCHANGED <<dates, v_pc>>
       ELSE IF AllDates(sd) = <<>>
       THEN /\ m_pc' = "returned" /\ m_exit' = "No dates in stock data"
            /\ UNCHANGED <<dates, v_pc>>
       ELSE /\ m_pc' = "value" /\ UNCHANGED m_exit
            /\ dates' = AllDates(sd)
            /\ v_pc' = "start"
    /\ UNCHANGED <<holdings_df, groups, gi, investor_portfolios, tracked>>
    /\ UNCHANGED <<load_outcome, multi_cap_weights, mid_small_weights, resolved,
                   investor_returns, multi_cap_returns, mid_small_returns, nifty_data_dict,
                   nifty_returns, chart, final_returns>>
    /\ UNCHANGED notMain

\* main.py lines 144-161, once calculate_portfolio_with_partial_data has returned
MainInvestorReturns ==
    /\ m_pc = "value"
    /\ v_pc = "done"
    /\ stages' = Append(stages, "value")
    /\ IF DOMAIN investor_portfolios = {}
       THEN /\ m_pc' = "returned" /\ m_exit' = "No portfolio data calculated"
            /\ UNCHANGED investor_returns
       ELSE /\ m_pc' = "funds" /\ UNCHANGED m_exit
            /\ investor_returns' = InvestorReturns(investor_portfolios, dates)
    /\ UNCHANGED valuatorVars
    /\ UNCHANGED <<load_outcome, multi_cap_weights, mid_small_weights, resolved, scraped,
                   scraper_stats,
                   stock_keys, multi_cap_returns, mid_small_returns, nifty_data_dict,
                   nifty_returns, chart, final_returns>>
    /\ UNCHANGED notMain

\* main.py lines 163-175
MainFundReturns ==
    /\ m_pc = "funds"
    /\ multi_cap_returns' = calculate_fund_returns(stock_data, stock_keys, multi_cap_weights)
    /\ mid_small_returns' = calculate_fund_returns(stock_data, stock_keys, mid_small_weights)
    /\ stages' = Append(stages, "funds")
    /\ m_pc' = "nifty"
    /\ UNCHANGED valuatorVars
    /\ UNCHANGED <<load_outcome, multi_cap_weights, mid_small_weights, resolved, scraped,
                   scraper_stats,
                   stock_keys, investor_returns, nifty_data_dict, nifty_returns, chart,
                   final_returns, m_exit>>
    /\ UNCHANGED notMain

\* main.py lines 177-197
MainFetchNifty(outcomes, series) ==
    /\ m_pc = "nifty"
    /\ nifty_data_dict' = fetch_nifty_data(outcomes, series)
    /\ nifty_returns' = NiftyReturns(nifty_data_dict', DOMAIN investor_returns)
    /\ stages' = Append(stages, "nifty")
    /\ m_pc' = "chart"
    /\ UNCHANGED valuatorVars
    /\ UNCHANGED <<load_outcome, multi_cap_weights, mid_small_weights, resolved, scraped,
                   scraper_stats,
                   stock_keys, investor_returns, multi_cap_returns, mid_small_returns,
                   chart, final_returns, m_exit>>
    /\ UNCHANGED notMain

\* main.py lines 199-217
MainChart ==
    /\ m_pc = "chart"
    /\ multi_cap_returns' = OrZeros(multi_cap_returns, DOMAIN investor_returns)
    /\ mid_small_returns' = OrZeros(mid_small_returns, DOMAIN investor_returns)
    /\ chart' = create_fund_comparison_chart(investor_returns, nifty_returns,
                                             multi_cap_returns', mid_small_returns')
    /\ stages' = Append(stages, "chart")
    /\ m_pc' = "summary"
    /\ UNCHANGED valuatorVars
    /\ UNCHANGED <<load_outcome, multi_cap_weights, mid_small_weights, resolved, scraped,
                   scraper_stats,
                   stock_keys, investor_returns, nifty_data_dict, nifty_returns,
                   final_returns, m_exit>>
    /\ UNCHANGED notMain

\* main.py lines 219-255
MainSummary ==
    /\ m_pc = "summary"
    /\ final_returns' =
          [investor |-> FinalReturn(investor_returns),
           nifty |-> FinalReturn(nifty_returns),
           multi_cap |-> FinalReturn(multi_cap_returns),
           mid_small |-> FinalReturn(mid_small_returns)]
    /\ stages' = Append(stages, "summary")
    /\ m_pc' = "done"
    /\ UNCHANGED valuatorVars
    /\ UNCHANGED <<load_outcome, multi_cap_weights, mid_small_weights, resolved, scraped,
                   scraper_stats,
                   stock_keys, investor_returns, multi_cap_returns, mid_small_returns,
                   nifty_data_dict, nifty_returns, chart, m_exit>>
    /\ UNCHANGED notMain

NextMain ==
    \/ \E outcome \in LoadOutcomes, table \in MainHoldings : MainLoadHoldings(outcome, table)
    \/ \E outcome \in WeightOutcomes, sheet \in WeightChoices : MainLoadWeights(outcome, sheet)
    \/ \E found \in SUBSET Securities : MainResolve(found)
    \/ \E total_downloaded \in 0..1, sd \in MainStockChoices :
          \E keys \in KeyOrders(DOMAIN sd) : MainAcquire(total_downloaded, sd, keys)
    \/ ValStart
    \/ ValueInvestor
    \/ ValReturn
    \/ MainInvestorReturns
    \/ MainFundReturns
    \/ \E outcomes \in [nifty_symbols -> ProbeOutcomes], series \in {FullSeries, LateSeries} :
          MainFetchNifty(outcomes, series)
    \/ MainChart
    \/ MainSummary

SpecMain == InitMain /\ [][NextMain]_vars

----------------------------------------------------------------------------
(* Properties of main.                                                     *)

\* C8: when the holdings sheet cannot be read or a required column is not
\* detected, no exception leaves load_holdings_data and main returns through
\* its 'No holdings data loaded' branch.
C8_LoadFailureCaught ==
    load_outcome \in {"unreadable", "missing_column"} =>
        m_pc = "returned" /\ m_exit = "No holdings data loaded"

\* C10: with fund weights that could not be loaded or without a NIFTY 50 series,
\* main goes on: no exit follows the investor returns, and the chart and the
\* summary get an all-zero series on the investor's date index for each series
\* that is missing.
C10_ZerosForMissingSeries ==
    /\ m_pc \in {"raised", "returned"} => "funds" \notin Range(stages)
    /\ m_pc = "chart" => nifty_returns = NiftyReturns(nifty_data_dict, Range(dates))
    /\ m_pc \in {"chart", "summary", "done"} =>
          /\ DOMAIN investor_returns = Range(dates)
          /\ "NIFTY 50" \notin DOMAIN nifty_data_dict =>
                nifty_returns = ZeroSeries(Range(dates))
    /\ m_pc \in {"summary", "done"} =>
          /\ multi_cap_weights = <<>> => multi_cap_returns = ZeroSeries(Range(dates))
          /\ mid_small_weights = <<>> => mid_small_returns = ZeroSeries(Range(dates))
          /\ chart = create_fund_comparison_chart(investor_returns, nifty_returns,
                                                  multi_cap_returns, mid_small_returns)
    /\ m_pc = "done" =>
          /\ SubSeq(stages, Len(stages) - 3, Len(stages))
                = <<"funds", "nifty", "chart", "summary">>
          /\ multi_cap_weights = <<>> => final_returns.multi_cap = Float(0)
          /\ mid_small_weights = <<>> => final_returns.mid_small = Float(0)
          /\ "NIFTY 50" \notin DOMAIN nifty_data_dict => final_returns.nifty = Float(0)

\* C10 witness: a run without fund weights and without NIFTY 50 has drawn the
\* chart and printed the summary.
C10_Witness ==
    /\ m_pc = "done"
    /\ multi_cap_weights = <<>>
    /\ mid_small_weights = <<>>
    /\ "NIFTY 50" \notin DOMAIN nifty_data_dict
    /\ chart.multi_cap_returns = ZeroSeries(Range(dates))
    /\ chart.nifty_returns = ZeroSeries(Range(dates))
    /\ Len(dates) > 1

\* The stages of main in the order of its source.
StageOrder ==
    <<"load", "weights", "resolve", "acquire", "value", "funds", "nifty", "chart", "summary">>

IsPrefix(xs, ys) == Len(xs) <= Len(ys) /\ xs = SubSeq(ys, 1, Len(xs))

\* C11: the stages of main run in the order of StageOrder, each at most once and
\* each after the previous one; the valuation runs only inside its stage; a run
\* with empty holdings, without stock data or without dates ends before the
\* valuation and the chart; a run that has ended takes no further step.
C11_LinearPipeline ==
    /\ IsPrefix(stages, StageOrder)
    /\ v_pc \in {"start", "loop"} => m_pc = "value" /\ stages = SubSeq(StageOrder, 1, 4)
    /\ m_pc = "done" => stages = StageOrder
    /\ (m_pc # "start" /\ load_outcome = "loaded" /\ holdings_df = <<>>) =>
          m_pc = "returned" /\ stages = <<"load">>
    /\ (stages # <<>> /\ load_outcome # "loaded") => m_pc = "raised" /\ stages = <<"load">>
    /\ ("acquire" \in Range(stages) /\ (DOMAIN stock_data = {} \/ AllDates(stock_data) = <<>>)) =>
          m_pc = "returned" /\ stages = SubSeq(StageOrder, 1, 4) /\ v_pc = "idle"
    /\ m_pc \in {"returned", "raised", "done"} => ~ENABLED NextMain

\* C11 witness: a run with two investors has passed all nine stages.
C11_Witness ==
    /\ m_pc = "done"
    /\ stages = StageOrder
    /\ v_pc = "done"
    /\ Cardinality(DOMAIN investor_portfolios) = 2

\* C21: main calls scrape_all_stocks only when the download state records no
\* downloaded security; when it records at least one, main downloads nothing,
\* neither at the acquisition step nor later, and the valuation runs on the
\* cached series as they were loaded.
C21_DownloadOnlyWithoutCache ==
    /\ []("acquire" \in Range(stages) =>
             /\ scraped = (scraper_stats = 0)
             /\ scraper_stats > 0 => ~scraped)
    /\ []("acquire" \notin Range(stages) => ~scraped)
    /\ [][("acquire" \in Range(stages)) =>
             (scraped' = scraped /\ stock_data' = stock_data)]_vars

\* C21 witness: the state recorded a download, main downloaded nothing and ran
\* to its end although a resolved security that an investor holds has no
\* cached series.
C21_Witness ==
    /\ m_pc = "done"
    /\ scraper_stats > 0
    /\ ~scraped
    /\ v_pc = "done"
    /\ \E k \in 1..Len(holdings_df) :
          /\ holdings_df[k].Security \in resolved
          /\ holdings_df[k].Security \notin DOMAIN stock_data

----------------------------------------------------------------------------
(* The report routines: investment_calculator.py, enhanced_main.py and     *)
(* smart_calculator.calculate_coverage_stats.  They are called on the      *)
(* holdings table and the loaded price series, in any order.               *)

HoldingRow(name, security, holding, value) ==
    [NAME |-> name, Security |-> security, Holding |-> holding, Value |-> value]

\* Holdings tables: those of main, an investor whose holdings are worth nothing,
\* investors out of order with a holding of zero shares, a security held twice,
\* a negative current value, and two holdings of different value.
ReportHoldings ==
    MainHoldings \cup
    {<<HoldingRow("A", "S3", 1, 0)>>,
     <<HoldingRow("B", "S2", 1, 0), HoldingRow("B", "S1", 2, 3), HoldingRow("A", "S2", 0, 3)>>,
     <<HoldingRow("A", "S1", 2, 3), HoldingRow("A", "S1", 1, 0)>>,
     <<HoldingRow("A", "S1", 1, 3), HoldingRow("A", "S3", 1, -1)>>,
     <<HoldingRow("A", "S1", 1, 1), HoldingRow("A", "S3", 1, 3)>>}

\* A series with a long gap.
WideSeries == (1 :> 1) @@ (4 :> 3)

ReportStockChoices ==
    {<<>>,
     [S1 |-> LateSeries],
     [S1 |-> GapSeries, S2 |-> FullSeries],
     [S1 |-> WideSeries, S2 |-> LateSeries],
     [S1 |-> <<>>, S2 |-> FullSeries]}

InvestmentDates == {0, 2, 5}

FloatPositive(x) == x.n > 0

\* A price lookup that takes the last date before the investment date first.
get_april_2024_price_PastFirst(sd, security_name, investment_dt) ==
    IF security_name \notin DOMAIN sd THEN None
    ELSE LET price_series == sd[security_name]
             future_dates == {d \in DOMAIN price_series : d >= investment_dt}
             past_dates == {d \in DOMAIN price_series : d < investment_dt}
         IN  IF investment_dt \in DOMAIN price_series
             THEN Float(price_series[investment_dt])
             ELSE IF past_dates # {}
             THEN Float(price_series[Max(past_dates)])
             ELSE IF future_dates # {}
             THEN Float(price_series[CHOOSE d \in future_dates :
                                        \A e \in future_dates : d <= e])
             ELSE None

\* investment_calculator.py lines 13-56
get_april_2024_price(sd, security_name, investment_dt) ==
    IF security_name \notin DOMAIN sd THEN None
    ELSE LET price_series == sd[security_name]
             future_dates == {d \in DOMAIN price_series : d >= investment_dt}
             past_dates == {d \in DOMAIN price_series : d < investment_dt}
         IN  IF investment_dt \in DOMAIN price_series
             THEN Float(price_series[investment_dt])
             ELSE IF future_dates # {}
             THEN Float(price_series[CHOOSE d \in future_dates :
                                        \A e \in future_dates : d <= e])
             ELSE IF past_dates # {}
             THEN Float(price_series[Max(past_dates)])
             ELSE None

\* A frame that is the table itself instead of a copy of it.
DataFrameCopy_Alias(df) == [same_object |-> TRUE, rows |-> df]

\* holdings_df.copy() (investment_calculator.py line 75): a new object with the
\* same rows
DataFrameCopy(df) == [same_object |-> FALSE, rows |-> df]

\* investment_calculator.py lines 78-109 for one row
InvestmentRow(row, sd, investment_dt) ==
    LET april_price == get_april_2024_price(sd, row.Security, investment_dt)
        priced == april_price # None
        investment_value == IF priced THEN FloatMul(Float(row.Holding), april_price)
                            ELSE Float(0)
        gain_loss == FloatAdd(Float(row.Value), FloatMul(Float(-1), investment_value))
    IN  [NAME |-> row.NAME, Security |-> row.Security, Holding |-> row.Holding,
         Value |-> row.Value,
         April_2024_Price |-> IF priced THEN april_price ELSE Float(0),
         Investment_Value |-> investment_value,
         Current_Price |-> IF priced /\ row.Holding > 0
                           THEN Frac(row.Value, row.Holding) ELSE Float(0),
         Gain_Loss |-> IF priced /\ row.Holding > 0 THEN gain_loss ELSE Float(0),
         Gain_Loss_Percent |->
            IF priced /\ row.Holding > 0 /\ FloatPositive(investment_value)
            THEN FloatMul(FloatDiv(gain_loss, investment_value), Float(100))
            ELSE Float(0)]

\* investment_calculator.py lines 59-128: the returned frame
calculate_investment_values(df, sd, investment_dt) ==
    [k \in 1..Len(df) |-> InvestmentRow(df[k], sd, investment_dt)]

\* A coverage that counts holdings instead of summing their values.
Coverage_ByCount(group, holdings_with_data) ==
    IF Len(group) > 0 THEN Frac(Len(holdings_with_data) * 100, Len(group)) ELSE Float(0)

\* smart_calculator.py line 63 with lines 58-61
Coverage(group, holdings_with_data) ==
    LET total_value == SumValue(group)
        value_with_data == SumValue(holdings_with_data)
    IN  IF total_value > 0 THEN Frac(value_with_data * 100, total_value) ELSE Float(0)

\* groupby('NAME'): the keys in ascending order
GroupKeys(df) ==
    LET IsKey(name) == \E k \in 1..Len(df) : df[k].NAME = name
    IN  SelectSeq(InvestorOrder, IsKey)

\* smart_calculator.py lines 53-74
calculate_coverage_stats(df, sd) ==
    LET keys == GroupKeys(df)
        Stat(investor_name) ==
            LET IsInvestor(row) == row.NAME = investor_name
                InData(row) == row.Security \in DOMAIN sd
                group == SelectSeq(df, IsInvestor)
                holdings_with_data == SelectSeq(group, InData)
            IN  [Investor |-> investor_name,
                 Total_Holdings |-> Len(group),
                 Holdings_with_Data |-> Len(holdings_with_data),
                 Total_Value |-> SumValue(group),
                 Value_with_Data |-> SumValue(holdings_with_data),
                 Coverage |-> Coverage(group, holdings_with_data)]
    IN  [k \in 1..Len(keys) |-> Stat(keys[k])]

\* holdings_df[column].unique(): first occurrences, in order
UniqueOf(df, column) == Dedupe([k \in 1..Len(df) |-> df[k][column]])

\* enhanced_main.py lines 38-50: valid_dates.any() is False for a series without
\* a date at or after the investment date, and iloc[-1] of an empty series raises
AprilPrice(security_data, investment_dt) ==
    LET valid_dates == {d \in DOMAIN security_data : d >= investment_dt}
    IN  IF valid_dates # {}
        THEN security_data[CHOOSE d \in valid_dates : \A e \in valid_dates : d <= e]
        ELSE security_data[Max(DOMAIN security_data)]

\* enhanced_main.py lines 25-88
calculate_individual_investments(df, sd, investment_dt) ==
    LET held == Range(UniqueOf(df, "Security")) \cap DOMAIN sd
    IN  IF \E security \in held : DOMAIN sd[security] = {}
        THEN [raised |-> "IndexError"]
        ELSE LET april_prices == [security \in held |-> AprilPrice(sd[security], investment_dt)]
                 Total(investor_name) ==
                    SumSeq([k \in 1..Len(df) |->
                              IF df[k].NAME = investor_name /\ df[k].Security \in held
                              THEN df[k].Holding * april_prices[df[k].Security] ELSE 0])
             IN  [investor_investments |->
                     [investor_name \in Range(UniqueOf(df, "NAME")) |-> Total(investor_name)],
                  april_prices |-> april_prices]

\* enhanced_main.py lines 126-192: the investors with a priced holding, each with
\* the sum of quantity x price over the dates any of their series has
calculate_investor_portfolios(df, sd) ==
    LET Priced(investor_name) ==
            {k \in 1..Len(df) : df[k].NAME = investor_name /\ df[k].Security \in DOMAIN sd}
        Index(investor_name) == UNION {DOMAIN sd[df[k].Security] : k \in Priced(investor_name)}
    IN  [investor_name \in {n \in Range(UniqueOf(df, "NAME")) : Priced(n) # {}} |->
            [d \in Index(investor_name) |->
                SumOver({k \in Priced(investor_name) : d \in DOMAIN sd[df[k].Security]},
                        [k \in Priced(investor_name) |->
                            IF d \in DOMAIN sd[df[k].Security]
                            THEN df[k].Holding * sd[df[k].Security][d] ELSE 0])]]

\* A series whose first value is zero.
ZeroStartSeries == (1 :> 0) @@ (2 :> 3)

\* A series object: its values by date, the class of its index and the time zone
\* of the index.
SeriesObject(index_class, tz, values) ==
    [index_class |-> index_class, tz |-> tz, values |-> values]

\* The series objects a fetch or load step hands over: yfinance gives a
\* DatetimeIndex that carries the time zone of the exchange or none, a CSV whose
\* first column is not parsed as dates gives a plain Index.
FetchedSeries ==
    {SeriesObject(index_class, tz, values) :
        index_class \in {"DatetimeIndex", "Index"},
        tz \in {"None", "Asia/Kolkata"},
        values \in {FullSeries, LateSeries, GapSeries, ZeroStartSeries}}
    \ {SeriesObject("Index", "Asia/Kolkata", values) :
        values \in {FullSeries, LateSeries, GapSeries, ZeroStartSeries}}

\* main.py lines 18-22: the object after the call; the assignment to
\* series.index changes the object that was passed in
remove_timezone(series) ==
    IF series.index_class = "DatetimeIndex" /\ series.tz # "None"
    THEN [series EXCEPT !.tz = "None"]
    ELSE series

\* enhanced_main.py lines 98-104 and monthly_analyzer.py lines 24-26: the
\* object after pd.to_datetime has replaced a plain index
WithDatetimeIndex(series) ==
    IF series.index_class # "DatetimeIndex"
    THEN [series EXCEPT !.index_class = "DatetimeIndex"]
    ELSE series

\* enhanced_main.py lines 106-123: the returned series
MonthlyReturns(values, start_dt) ==
    LET kept == {d \in DOMAIN values : d >= start_dt}
    IN  IF kept = {} THEN <<>>
        ELSE LET initial_value == values[CHOOSE d \in kept : \A e \in kept : d <= e]
             IN  IF initial_value # 0
                 THEN [d \in kept |->
                         FloatMul(FloatAdd(Frac(values[d] * Sign(initial_value),
                                                Abs(initial_value)), Float(-1)),
                                  Float(100))]
                 ELSE [d \in kept |-> Float(0)]

InitReports ==
    /\ IdleMatcher
    /\ IdleFund
    /\ IdleLoader
    /\ IdleResolver
    /\ IdleScraper
    /\ IdleMain
    /\ holdings_df \in ReportHoldings
    /\ stock_data \in ReportStockChoices
    /\ dates = AllDates(stock_data)
    /\ v_pc = "start"
    /\ groups = <<>>
    /\ gi = 0
    /\ investor_portfolios = <<>>
    /\ tracked = <<>>
    /\ investment_date \in InvestmentDates
    /\ security_arg = "none"
    /\ fetched = <<>>
    /\ series_obj = <<>>
    /\ call = "none"
    /\ result = <<>>

\* investment_calculator.calculate_investment_values: the columns are written to
\* investment_df, which is the caller's table only if it is the same object
CallInvestmentValues ==
    /\ LET investment_df == DataFrameCopy(holdings_df)
           written == calculate_investment_values(investment_df.rows, stock_data,
                                                  investment_date)
       IN  /\ result' = written
           /\ holdings_df' = IF investment_df.same_object THEN written ELSE holdings_df
    /\ call' = "calculate_investment_values"
    /\ UNCHANGED <<stock_data, dates, v_pc, groups, gi, investor_portfolios, tracked>>
    /\ UNCHANGED <<investment_date, security_arg, fetched, series_obj>>
    /\ UNCHANGED notReports

\* smart_calculator.calculate_coverage_stats
CallCoverageStats ==
    /\ result' = calculate_coverage_stats(holdings_df, stock_data)
    /\ call' = "calculate_coverage_stats"
    /\ UNCHANGED valuatorVars
    /\ UNCHANGED <<investment_date, security_arg, fetched, series_obj>>
    /\ UNCHANGED notReports

\* enhanced_main.calculate_individual_investments
CallIndividualInvestments ==
    /\ result' = calculate_individual_investments(holdings_df, stock_data, investment_date)
    /\ call' = "calculate_individual_investments"
    /\ UNCHANGED valuatorVars
    /\ UNCHANGED <<investment_date, security_arg, fetched, series_obj>>
    /\ UNCHANGED notReports

\* enhanced_main.calculate_investor_portfolios
CallInvestorPortfolios ==
    /\ result' = calculate_investor_portfolios(holdings_df, stock_data)
    /\ call' = "calculate_investor_portfolios"
    /\ UNCHANGED valuatorVars
    /\ UNCHANGED <<investment_date, security_arg, fetched, series_obj>>
    /\ UNCHANGED notReports

\* investment_calculator.get_april_2024_price
CallAprilPrice(security_name) ==
    /\ result' = get_april_2024_price(stock_data, security_name, investment_date)
    /\ call' = "get_april_2024_price"
    /\ security_arg' = security_name
    /\ UNCHANGED valuatorVars
    /\ UNCHANGED <<investment_date, fetched, series_obj>>
    /\ UNCHANGED notReports

\* main.remove_timezone called on the fetched series (main.py line 189)
CallRemoveTimezone ==
    /\ series_obj' = remove_timezone(series_obj)
    /\ result' = series_obj'
    /\ call' = "remove_timezone"
    /\ UNCHANGED valuatorVars
    /\ UNCHANGED <<investment_date, security_arg, fetched>>
    /\ UNCHANGED notReports

\* enhanced_main.calculate_monthly_returns called on the fetched series
\* (enhanced_main.py line 334)
CallMonthlyReturns ==
    /\ series_obj' = remove_timezone(WithDatetimeIndex(series_obj))
    /\ result' = MonthlyReturns(series_obj.values, investment_date)
    /\ call' = "calculate_monthly_returns"
    /\ UNCHANGED valuatorVars
    /\ UNCHANGED <<investment_date, security_arg, fetched>>
    /\ UNCHANGED notReports

\* monthly_analyzer.calculate_monthly_performance, lines 24-52: the comparison
\* of line 30 raises for an index with a time zone; of the metrics the
\* cumulative return is kept
CallMonthlyPerformance ==
    /\ series_obj' = WithDatetimeIndex(series_obj)
    /\ result' = IF series_obj.tz # "None" THEN [raised |-> "TypeError"]
                 ELSE MonthlyReturns(series_obj.values, investment_date)
    /\ call' = "calculate_monthly_performance"
    /\ UNCHANGED valuatorVars
    /\ UNCHANGED <<investment_date, security_arg, fetched>>
    /\ UNCHANGED notReports

InitSeries ==
    /\ IdleMatcher
    /\ IdleFund
    /\ IdleLoader
    /\ IdleResolver
    /\ IdleScraper
    /\ IdleMain
    /\ IdleValuator
    /\ investment_date \in InvestmentDates
    /\ security_arg = "none"
    /\ series_obj \in FetchedSeries
    /\ fetched = series_obj
    /\ call = "none"
    /\ result = <<>>

NextSeries ==
    \/ CallRemoveTimezone
    \/ CallMonthlyReturns
    \/ CallMonthlyPerformance

SpecSeries == InitSeries /\ [][NextSeries]_vars

NextReports ==
    \/ ValStart
    \/ ValueInvestor
    \/ ValReturn
    \/ CallInvestmentValues
    \/ CallCoverageStats
    \/ CallIndividualInvestments
    \/ CallInvestorPortfolios
    \/ \E security_name \in Securities : CallAprilPrice(security_name)

SpecReports == InitReports /\ [][NextReports]_vars

----------------------------------------------------------------------------
(* Properties of the report routines.                                      *)

\* C12: no valuation or report routine changes a row, a column or a value of the
\* holdings table it is given; calculate_investment_values adds its columns to a
\* copy.
C12_HoldingsImmutable == [][holdings_df' = holdings_df]_vars

\* C12 witness: calculate_investment_values has returned a frame with the derived
\* columns filled in, after the valuation of the same table.
C12_Witness ==
    /\ call = "calculate_investment_values"
    /\ v_pc = "done"
    /\ Len(holdings_df) > 1
    /\ Len(result) = Len(holdings_df)
    /\ FloatPositive(result[1].Investment_Value)
    /\ DOMAIN holdings_df[1] = {"NAME", "Security", "Holding", "Value"}

\* C13: once a price series has been fetched, no later step changes the values
\* or the index of that series object.
C13_SeriesReadOnly == series_obj = fetched

\* The current values of the holdings rows.
ValueOfRow == [k \in 1..Len(holdings_df) |-> holdings_df[k].Value]

\* The rows of the coverage report for investor i.
StatsOf(i) == {k \in 1..Len(result) : result[k].Investor = i}

\* C15: calculate_coverage_stats reports, for each investor, Coverage % =
\* 100 * (value of the holdings that have a price series) / (value of all the
\* holdings), and 0 when the total is not positive; when no holding value is
\* negative the coverage lies between 0 and 100 and 'Holdings with Data' is at
\* most 'Total Holdings'.
C15_CoverageFormula ==
    call = "calculate_coverage_stats" =>
        /\ \A k \in 1..Len(result) : RowsOf(result[k].Investor) # {}
        /\ \A i \in Investors : RowsOf(i) # {} =>
              /\ Cardinality(StatsOf(i)) = 1
              /\ \A k \in StatsOf(i) :
                    LET total == SumOver(RowsOf(i), ValueOfRow)
                        covered == SumOver(CoveredRows(i), ValueOfRow)
                        stat == result[k]
                    IN  /\ stat.Total_Holdings = Cardinality(RowsOf(i))
                        /\ stat.Holdings_with_Data = Cardinality(CoveredRows(i))
                        /\ stat.Coverage = IF total > 0 THEN Frac(100 * covered, total)
                                                          ELSE Float(0)
                        /\ (\A r \in RowsOf(i) : ValueOfRow[r] >= 0) =>
                              /\ stat.Coverage.n >= 0
                              /\ stat.Coverage.n <= 100 * stat.Coverage.d
                              /\ stat.Holdings_with_Data <= stat.Total_Holdings

\* C15 witness: an investor with two holdings of different value, one of them
\* without a price series, so that the coverage is neither 0, 50 nor 100.
C15_Witness ==
    /\ call = "calculate_coverage_stats"
    /\ \E k \in 1..Len(result) :
          /\ result[k].Total_Holdings = 2
          /\ result[k].Holdings_with_Data = 1
          /\ result[k].Coverage.n > 0
          /\ result[k].Coverage.n < 100 * result[k].Coverage.d
          /\ result[k].Coverage # Float(50)

\* The series the last price lookup was about, <<>> when there is none.
LookedUp ==
    IF security_arg \in DOMAIN stock_data THEN stock_data[security_arg] ELSE <<>>

----------------------------------------------------------------------------
(* nse_equity_matcher.py: find_best_match                                  *)

\* The marker words of the equity patterns, as characters.
EQ_ == <<"E", "Q">>
NEW_ == <<"N", "E", "W">>
RS_ == <<"R", "S">>

\* \w of the regular expressions
WordChar(c) == c \in AlnumChars \/ c = "_"

\* \b between the positions i - 1 and i of s
Boundary(s, i) ==
    (i > 1 /\ WordChar(s[i - 1])) # (i <= Len(s) /\ WordChar(s[i]))

\* \bpattern\b matches s at i; a "." of the pattern stands for any character, as
\* it does in the patterns 'LTD.', 'PVT.', 'CO.' and 'CORP.' of line 16
WordPatternAt(s, pattern, i) ==
    /\ i + Len(pattern) - 1 <= Len(s)
    /\ \A k \in 1..Len(pattern) : pattern[k] = "." \/ s[i + k - 1] = pattern[k]
    /\ Boundary(s, i)
    /\ Boundary(s, i + Len(pattern))

RECURSIVE SubWordFrom(_, _, _)
\* re.sub(r'\b' + pattern + r'\b', '', s), from position i on
SubWordFrom(s, pattern, i) ==
    IF i > Len(s) THEN <<>>
    ELSE IF WordPatternAt(s, pattern, i) THEN SubWordFrom(s, pattern, i + Len(pattern))
    ELSE <<s[i]>> \o SubWordFrom(s, pattern, i + 1)

\* line 15-19
remove_patterns ==
    <<<<"L", "I", "M", "I", "T", "E", "D">>,
      <<"L", "T", "D">>,
      <<"L", "T", "D", ".">>,
      <<"P", "R", "I", "V", "A", "T", "E">>,
      <<"P", "V", "T">>,
      <<"P", "V", "T", ".">>,
      <<"C", "O", "M", "P", "A", "N", "Y">>,
      <<"C", "O">>,
      <<"C", "O", ".">>,
      <<"C", "O", "R", "P", "O", "R", "A", "T", "I", "O", "N">>,
      <<"C", "O", "R", "P">>,
      <<"C", "O", "R", "P", ".">>,
      <<"E", "N", "T", "E", "R", "P", "R", "I", "S", "E", "S">>,
      <<"I", "N", "D", "U", "S", "T", "R", "I", "E", "S">>,
      <<"I", "N", "T", "E", "R", "N", "A", "T", "I", "O", "N", "A", "L">>>>

RECURSIVE RemoveWords(_, _)
\* lines 21-22
RemoveWords(s, patterns) ==
    IF patterns = <<>> THEN s
    ELSE RemoveWords(SubWordFrom(s, Head(patterns), 1), Tail(patterns))

RECURSIVE SkipSpaces(_, _)
\* The position \s* reaches from i
SkipSpaces(s, i) == IF i <= Len(s) /\ s[i] = " " THEN SkipSpaces(s, i + 1) ELSE i

\* One of firsts, then \s*, then one of seconds, matches s at i
TwoPartAt(s, firsts, seconds, i) ==
    \E f \in firsts, g \in seconds :
        /\ MatchAt(s, f, i)
        /\ MatchAt(s, g, SkipSpaces(s, i + Len(f)))

\* re.sub of a pattern that ends in '.*': s is cut at the leftmost match
TruncateAt(s, firsts, seconds) ==
    IF \E i \in 1..Len(s) : TwoPartAt(s, firsts, seconds, i)
    THEN SubSeq(s, 1, (CHOOSE i \in 1..Len(s) :
                          /\ TwoPartAt(s, firsts, seconds, i)
                          /\ \A j \in 1..(i - 1) : ~TwoPartAt(s, firsts, seconds, j)) - 1)
    ELSE s

RECURSIVE SubEqEqFrom(_, _)
\* re.sub(r'EQ\s*EQ', '', s), from position i on
SubEqEqFrom(s, i) ==
    IF i > Len(s) THEN <<>>
    ELSE IF TwoPartAt(s, {EQ_}, {EQ_}, i)
         THEN SubEqEqFrom(s, SkipSpaces(s, i + 2) + 2)
         ELSE <<s[i]>> \o SubEqEqFrom(s, i + 1)

FV_Forms == {<<"F", "V">>, <<"F", ".", "V">>}
FV_DotForms == FV_Forms \cup {<<"F", "V", ".">>, <<"F", ".", "V", ".">>}

\* lines 25-32 for a name without a digit: the four patterns with \d match nothing
RemoveEquityMarkers(s) ==
    LET p1 == TruncateAt(s, {EQ_}, {NEW_})
        p2 == SubEqEqFrom(p1, 1)
        p3 == TruncateAt(p2, {EQ_}, FV_Forms)
        p4 == TruncateAt(p3, {EQ_}, {RS_})
        p5 == TruncateAt(p4, {NEW_}, {<<"F", "V">>})
        p6 == TruncateAt(p5, {NEW_}, {RS_})
    IN  TruncateAt(p6, FV_DotForms, {RS_})

RECURSIVE CollapseSpaces(_)
\* re.sub(r'\s+', ' ', s)
CollapseSpaces(s) ==
    IF Len(s) < 2 THEN s
    ELSE IF s[1] = " " /\ s[2] = " " THEN CollapseSpaces(Tail(s))
    ELSE <<s[1]>> \o CollapseSpaces(Tail(s))

\* nse_equity_matcher.py lines 10-40
clean_company_name(name) ==
    LET upper == Upper(name)
        words == RemoveWords(upper, remove_patterns)
        markers == RemoveEquityMarkers(words)
        plain == [k \in 1..Len(markers) |->
                    IF WordChar(markers[k]) \/ markers[k] \in {" ", "&"}
                    THEN markers[k] ELSE " "]
    IN  Strip(CollapseSpaces(plain))

RECURSIVE MatchingChars(_, _)
\* The sum of the sizes of SequenceMatcher.get_matching_blocks(): the longest
\* common block that starts earliest in a, then earliest in b, and the same to
\* its left and to its right
MatchingChars(a, b) ==
    LET blocks == {blk \in (1..Len(a)) \X (1..Len(b)) \X (1..Min(Len(a), Len(b))) :
                      /\ blk[1] + blk[3] - 1 <= Len(a)
                      /\ blk[2] + blk[3] - 1 <= Len(b)
                      /\ SubSeq(a, blk[1], blk[1] + blk[3] - 1)
                            = SubSeq(b, blk[2], blk[2] + blk[3] - 1)}
    IN  IF blocks = {} THEN 0
        ELSE LET best == CHOOSE x \in blocks : \A y \in blocks :
                            \/ x[3] > y[3]
                            \/ x[3] = y[3] /\ x[1] < y[1]
                            \/ x[3] = y[3] /\ x[1] = y[1] /\ x[2] <= y[2]
             IN  best[3]
                 + MatchingChars(SubSeq(a, 1, best[1] - 1), SubSeq(b, 1, best[2] - 1))
                 + MatchingChars(SubSeq(a, best[1] + best[3], Len(a)),
                                 SubSeq(b, best[2] + best[3], Len(b)))

\* lines 43-45: SequenceMatcher(None, str1, str2).ratio()
similarity_score(str1, str2) ==
    IF Len(str1) + Len(str2) = 0 THEN Float(1)
    ELSE Frac(2 * MatchingChars(str1, str2), Len(str1) + Len(str2))

\* a >= b for two finite floats
FloatGeq(a, b) == a.n * b.d >= b.n * a.d

RECURSIVE BestFuzzy(_, _, _)
\* lines 85-96: the loop over the first k entries
BestFuzzy(clean_holdings, entries, k) ==
    IF k = 0 THEN [best_match |-> None, best_score |-> Float(0)]
    ELSE LET before == BestFuzzy(clean_holdings, entries, k - 1)
             score == similarity_score(clean_holdings, clean_company_name(entries[k][1]))
         IN  IF ~FloatGeq(before.best_score, score)
             THEN [best_match |-> entries[k][2], best_score |-> score]
             ELSE before

\* A matcher that returns the best fuzzy candidate whatever its score.
find_best_match_AnyScore(name, entries, th) ==
    LET clean_holdings == clean_company_name(name)
        exact == {k \in 1..Len(entries) : clean_company_name(entries[k][1]) = clean_holdings}
        fuzzy == BestFuzzy(clean_holdings, entries, Len(entries))
    IN  IF exact # {}
        THEN [symbol |-> entries[CHOOSE k \in exact : \A j \in exact : k <= j][2],
              score |-> Float(1), type |-> "exact"]
        ELSE IF fuzzy.best_match # None
        THEN [symbol |-> fuzzy.best_match, score |-> fuzzy.best_score, type |-> "fuzzy"]
        ELSE [symbol |-> None, score |-> Float(0), type |-> "no_match"]

\* nse_equity_matcher.py lines 70-101
find_best_match(name, entries, th) ==
    LET clean_holdings == clean_company_name(name)
        exact == {k \in 1..Len(entries) : clean_company_name(entries[k][1]) = clean_holdings}
        fuzzy == BestFuzzy(clean_holdings, entries, Len(entries))
    IN  IF exact # {}
        THEN [symbol |-> entries[CHOOSE k \in exact : \A j \in exact : k <= j][2],
              score |-> Float(1), type |-> "exact"]
        ELSE IF FloatGeq(fuzzy.best_score, th)
        THEN [symbol |-> fuzzy.best_match, score |-> fuzzy.best_score, type |-> "fuzzy"]
        ELSE [symbol |-> None, score |-> Float(0), type |-> "no_match"]

\* Holdings names, without digits.
HoldingsNames ==
    {<<"A", "b", "c", " ", "L", "i", "m", "i", "t", "e", "d", " ", "E", "Q", " ", "N", "E", "W">>,
     <<"A", "B", "C", " ", "L", "T", "D", ".">>,
     <<"A", "B", "D", " ", "C", "O", " ", "E", "Q", " ", "R", "S">>,
     <<"C", "O", "X", " ", "L", "T", "D">>,
     <<"A", "B", "C", "D", "E", " ", "L", "T", "D", " ", "E", "Q", " ", "E", "Q">>,
     <<"X", "Y", "Z">>}

\* Listings as load_nse_equity_list builds them: upper-case company name, symbol.
Listings ==
    {<<>>,
     << <<<<"A", "B", "C", " ", "L", "I", "M", "I", "T", "E", "D">>,
          <<"A", "B", "C">>>>,
        <<<<"A", "B", "D", " ", "L", "I", "M", "I", "T", "E", "D">>,
          <<"A", "B", "D">>>> >>,
     << <<<<"A", "B", "C", "D", " ", "L", "I", "M", "I", "T", "E", "D">>,
          <<"A", "B", "C", "D">>>>,
        <<<<"A", "B", "C", "E", " ", "L", "I", "M", "I", "T", "E", "D">>,
          <<"A", "B", "C", "E">>>> >>,
     << <<<<"C", "O", "M", "P", "A", "N", "Y">>,
          <<"C", "M", "P">>>>,
        <<<<"A", "B", "D", " ", "C", "O", "R", "P", "O", "R", "A", "T", "I", "O", "N">>,
          <<"A", "B", "D">>>> >>,
     << <<<<"A", "B", " ", "L", "I", "M", "I", "T", "E", "D">>,
          <<"A", "B">>>>,
        <<<<"A", "B", "C", "D", "E", " ", "I", "N", "D", "U", "S", "T", "R", "I", "E", "S">>,
          <<"A", "B", "C", "D", "E">>>> >>}

\* The default threshold of line 70, and a stricter one.
Thresholds == {Frac(8, 10), Frac(9, 10)}

InitMatcher ==
    /\ IdleFund
    /\ IdleLoader
    /\ IdleResolver
    /\ IdleScraper
    /\ IdleMain
    /\ IdleValuator
    /\ IdleReports
    /\ holdings_name \in HoldingsNames
    /\ nse_dict \in Listings
    /\ threshold \in Thresholds
    /\ fm_pc = "start"
    /\ match = <<>>

\* nse_equity_matcher.py lines 70-101
FindBestMatch ==
    /\ fm_pc = "start"
    /\ match' = find_best_match(holdings_name, nse_dict, threshold)
    /\ fm_pc' = "returned"
    /\ UNCHANGED <<holdings_name, nse_dict, threshold>>
    /\ UNCHANGED notMatcher

NextMatcher == FindBestMatch

SpecMatcher == InitMatcher /\ [][NextMatcher]_vars

\* The scores of the listing entries against the holdings name.
EntryScore(k) ==
    similarity_score(clean_company_name(holdings_name), clean_company_name(nse_dict[k][1]))

ExactEntries ==
    {k \in 1..Len(nse_dict) :
        clean_company_name(nse_dict[k][1]) = clean_company_name(holdings_name)}

\* C14: find_best_match returns the symbol of an entry whose cleaned name equals
\* the cleaned holdings name, with score 1.0 and type 'exact', when there is
\* one; otherwise the symbol of an entry with the best score and type 'fuzzy'
\* when that score reaches the threshold; otherwise (None, 0, 'no_match').
C14_ExactOrSimilarEnough ==
    fm_pc = "returned" =>
        IF ExactEntries # {}
        THEN /\ match.type = "exact"
             /\ match.score = Float(1)
             /\ \E k \in ExactEntries : match.symbol = nse_dict[k][2]
        ELSE IF \E k \in 1..Len(nse_dict) : FloatGeq(EntryScore(k), threshold)
        THEN /\ match.type = "fuzzy"
             /\ FloatGeq(match.score, threshold)
             /\ \E k \in 1..Len(nse_dict) :
                   /\ match.symbol = nse_dict[k][2]
                   /\ match.score = EntryScore(k)
                   /\ \A j \in 1..Len(nse_dict) : FloatGeq(EntryScore(k), EntryScore(j))
        ELSE match = [symbol |-> None, score |-> Float(0), type |-> "no_match"]

\* C14 witness: a fuzzy match whose score is exactly the threshold.
C14_Witness ==
    /\ fm_pc = "returned"
    /\ match.type = "fuzzy"
    /\ match.score = threshold
    /\ match.symbol = <<"A", "B">>

----------------------------------------------------------------------------
(* main.py: calculate_fund_returns, called with any arguments              *)

\* main.py lines 33-38: the weights divided by their sum
NormalizedWeights(weights) ==
    LET total_weight == SumOver(DOMAIN weights, weights)
    IN  [k \in DOMAIN weights |-> Frac(weights[k], total_weight)]

\* A coverage that counts every weighted security, with or without a series.
TotalCoverage_All(sd, weights) ==
    IF DOMAIN weights = {} \/ SumOver(DOMAIN weights, weights) = 0 \/ DOMAIN sd = {}
    THEN Float(0)
    ELSE FloatSum(DOMAIN weights, NormalizedWeights(weights))

\* main.py lines 47-55: the sum of the normalised weights of the securities
\* that are in stock_data; the early returns of lines 28-43 leave it at 0
TotalCoverage(sd, weights) ==
    IF DOMAIN weights = {} \/ SumOver(DOMAIN weights, weights) = 0 \/ DOMAIN sd = {}
    THEN Float(0)
    ELSE FloatSum(DOMAIN weights \cap DOMAIN sd, NormalizedWeights(weights))

\* The weights the function is given: none, a single weight of 0, and positive
\* weights as extract_weights keeps them (data_loader.py line 195).
FundWeightChoices ==
    {<<>>, [S1 |-> 0], [S1 |-> 60, S2 |-> 40], [S2 |-> 1, S3 |-> 3], [S1 |-> 1],
     [S3 |-> 5], [S1 |-> 1, S2 |-> 1, S3 |-> 2]}

InitFund ==
    /\ IdleLoader
    /\ IdleResolver
    /\ IdleScraper
    /\ IdleMain
    /\ IdleValuator
    /\ IdleReports
    /\ IdleMatcher
    /\ f_stock_data \in MainStockChoices
    /\ f_keys \in KeyOrders(DOMAIN f_stock_data)
    /\ f_weights \in FundWeightChoices
    /\ f_pc = "start"
    /\ f_return = <<>>
    /\ total_coverage = Float(0)

\* main.py lines 25-64
CallFundReturns ==
    /\ f_pc = "start"
    /\ f_return' = calculate_fund_returns(f_stock_data, f_keys, f_weights)
    /\ total_coverage' = TotalCoverage(f_stock_data, f_weights)
    /\ f_pc' = "returned"
    /\ UNCHANGED <<f_stock_data, f_keys, f_weights>>
    /\ UNCHANGED notFund

NextFund == CallFundReturns

SpecFund == InitFund /\ [][NextFund]_vars

\* The weighted securities that have a series, and the weight sum.
Covered == DOMAIN f_weights \cap DOMAIN f_stock_data
WeightSum == SumOver(DOMAIN f_weights, f_weights)

\* The return of the fund on date d as the claim describes it: each covered
\* security adds its return times its share of the whole weight sum.
WeightedReturn(d) ==
    LET index == SortedSeq(DOMAIN f_stock_data[f_keys[1]])
    IN  FloatSum(Covered,
                 [s \in Covered |->
                     FloatMul(FillNa0(pct_change(Reindex(f_stock_data[s], index)))[d],
                              Frac(f_weights[s], WeightSum))])

\* C23: calculate_fund_returns returns an empty series when fund_weights is
\* empty, the weights sum to 0 or stock_data is empty; otherwise positive weights
\* are normalised to sum to 1, a weighted security without a series adds nothing
\* and its weight is not given to the others, so that the applied weight is the
\* share of the covered securities and is at most 1.
C23_NormalisedNotRedistributed ==
    f_pc = "returned" =>
        IF DOMAIN f_weights = {} \/ WeightSum = 0 \/ DOMAIN f_stock_data = {}
        THEN f_return = <<>> /\ total_coverage = Float(0)
        ELSE /\ FloatSum(DOMAIN f_weights, NormalizedWeights(f_weights)) = Float(1)
             /\ total_coverage = Frac(SumOver(Covered, f_weights), WeightSum)
             /\ total_coverage.n <= total_coverage.d
             /\ DOMAIN f_return = DOMAIN f_stock_data[f_keys[1]]
             /\ f_return =
                   Cumulative([d \in DOMAIN f_stock_data[f_keys[1]] |-> WeightedReturn(d)])
             /\ Covered = {} => \A d \in DOMAIN f_return : f_return[d] = Float(0)

\* C23 witness: a fund with weights 1 and 3 of which only the first security
\* has a series: the coverage is 1/4 and the fund moved by a quarter of what
\* the security moved.
C23_Witness ==
    /\ f_pc = "returned"
    /\ f_weights = [S2 |-> 1, S3 |-> 3]
    /\ Covered = {"S2"}
    /\ total_coverage = Frac(1, 4)
    /\ \E d \in DOMAIN f_return : f_return[d].n # 0

----------------------------------------------------------------------------
(* resolve_final_failed.py: find_best_nse_match.  The call uses the        *)
(* variables of the matcher: holdings_name is security_name, nse_dict the  *)
(* rows of nse_df as <<NAME OF COMPANY, SYMBOL>>.                          *)

\* The entries of MANUAL_OVERRIDES (lines 12-56) that the inputs can hit, in
\* dictionary order, as <<key, ticker>>.
MANUAL_OVERRIDES ==
    << <<<<"K", "S", "R", " ", "F", "O", "O", "T", "W", "E", "A", "R", " ", "L", "I", "M", "I", "T", "E", "D">>,
         <<"K", "S", "R">>>>,
       <<<<"A", "N", "I", "L", " ", "L", "I", "M", "I", "T", "E", "D">>,
         <<"A", "N", "I", "L", "L", "T", "D">>>>,
       <<<<"P", "A", "E", " ", "L", "I", "M", "I", "T", "E", "D">>,
         <<"P", "A", "E">>>>,
       <<<<"L", "M", "L", " ", "L", "I", "M", "I", "T", "E", "D">>,
         <<"L", "M", "L">>>> >>

\* line 64
StopKeywords ==
    <<<<"P", "R", "E", "F">>,
      <<"B", "D", " ">>,
      <<"B", "O", "N", "D">>,
      <<"E", "T", "F">>,
      <<"M", "U", "T", "U", "A", "L", " ", "F", "U", "N", "D">>>>

\* lines 72-73
RemoveWordList ==
    <<<<"L", "I", "M", "I", "T", "E", "D">>,
      <<"L", "T", "D">>,
      <<"C", "O", "M", "P", "A", "N", "Y">>,
      <<"C", "O", "R", "P", "O", "R", "A", "T", "I", "O", "N">>,
      <<"I", "N", "D", "U", "S", "T", "R", "I", "E", "S">>,
      <<"I", "N", "D", "I", "A">>,
      <<"I", "N", "T", "E", "R", "N", "A", "T", "I", "O", "N", "A", "L">>,
      <<"P", "R", "I", "V", "A", "T", "E">>,
      <<"P", "U", "B", "L", "I", "C">>,
      <<"E", "N", "T", "E", "R", "P", "R", "I", "S", "E", "S">>>>

CapitalLetters ==
    {"A", "B", "C", "D", "E", "F", "G", "H", "I", "J", "K", "L", "M", "N", "O", "P", "Q",
     "R", "S", "T", "U", "V", "W", "X", "Y", "Z"}

\* lines 65-66: name.split(stop)[0] when stop is in name
CutAtStop(name, stop) ==
    IF Contains(name, stop)
    THEN SubSeq(name, 1, (CHOOSE i \in 1..Len(name) :
                             /\ MatchAt(name, stop, i)
                             /\ \A j \in 1..(i - 1) : ~MatchAt(name, stop, j)) - 1)
    ELSE name

RECURSIVE CutAtStops(_, _)
\* lines 64-66
CutAtStops(name, stops) ==
    IF stops = <<>> THEN name
    ELSE CutAtStops(CutAtStop(name, Head(stops)), Tail(stops))

\* line 69: re.sub(r'[^A-Z\s&]', '', name)
KeepLetters(name) ==
    LET Kept(c) == c \in CapitalLetters \cup {" ", "&"}
    IN  SelectSeq(name, Kept)

\* resolve_final_failed.py lines 59-81
aggressive_clean(name) ==
    Strip(CollapseSpaces(RemoveWords(KeepLetters(CutAtStops(Upper(name), StopKeywords)),
                                     RemoveWordList)))

\* lines 84-86; both strings are upper case already
similarity_ratio(s1, s2) == similarity_score(Upper(s1), Upper(s2))

RECURSIVE BestNseFuzzy(_, _, _)
\* lines 107-119: the loop over the first k rows
BestNseFuzzy(clean_name, rows, k) ==
    IF k = 0 THEN [best_match |-> None, best_score |-> Float(0)]
    ELSE LET before == BestNseFuzzy(clean_name, rows, k - 1)
             score == similarity_ratio(clean_name, aggressive_clean(rows[k][1]))
         IN  IF ~FloatGeq(before.best_score, score)
             THEN [best_match |-> rows[k][2], best_score |-> score]
             ELSE before

\* A matcher that looks for the symbol before it looks at the overrides.
find_best_nse_match_SymbolFirst(security_name, nse_df, th) ==
    LET clean_name == aggressive_clean(security_name)
        overrides == {k \in 1..Len(MANUAL_OVERRIDES) :
                         aggressive_clean(MANUAL_OVERRIDES[k][1]) = clean_name}
        clean_parts == Split(clean_name)
        symbol_rows == IF clean_parts = <<>> THEN {}
                       ELSE {k \in 1..Len(nse_df) : Upper(nse_df[k][2]) = clean_parts[1]}
        fuzzy == BestNseFuzzy(clean_name, nse_df, Len(nse_df))
    IN  IF symbol_rows # {}
        THEN [symbol |-> nse_df[CHOOSE k \in symbol_rows : \A j \in symbol_rows : k <= j][2],
              score |-> Frac(95, 100), type |-> "symbol"]
        ELSE IF overrides # {}
        THEN [symbol |-> MANUAL_OVERRIDES[CHOOSE k \in overrides :
                                             \A j \in overrides : k <= j][2],
              score |-> Float(1), type |-> "manual"]
        ELSE IF FloatGeq(fuzzy.best_score, th)
        THEN [symbol |-> fuzzy.best_match, score |-> fuzzy.best_score, type |-> "fuzzy"]
        ELSE [symbol |-> None, score |-> Float(0), type |-> "failed"]

\* resolve_final_failed.py lines 89-124
find_best_nse_match(security_name, nse_df, th) ==
    LET clean_name == aggressive_clean(security_name)
        overrides == {k \in 1..Len(MANUAL_OVERRIDES) :
                         aggressive_clean(MANUAL_OVERRIDES[k][1]) = clean_name}
        clean_parts == Split(clean_name)
        symbol_rows == IF clean_parts = <<>> THEN {}
                       ELSE {k \in 1..Len(nse_df) : Upper(nse_df[k][2]) = clean_parts[1]}
        fuzzy == BestNseFuzzy(clean_name, nse_df, Len(nse_df))
    IN  IF overrides # {}
        THEN [symbol |-> MANUAL_OVERRIDES[CHOOSE k \in overrides :
                                             \A j \in overrides : k <= j][2],
              score |-> Float(1), type |-> "manual"]
        ELSE IF symbol_rows # {}
        THEN [symbol |-> nse_df[CHOOSE k \in symbol_rows : \A j \in symbol_rows : k <= j][2],
              score |-> Frac(95, 100), type |-> "symbol"]
        ELSE IF FloatGeq(fuzzy.best_score, th)
        THEN [symbol |-> fuzzy.best_match, score |-> fuzzy.best_score, type |-> "fuzzy"]
        ELSE [symbol |-> None, score |-> Float(0), type |-> "failed"]

\* Security names of the failed list.
FailedNames ==
    {<<"A", "N", "I", "L", " ", "L", "T", "D">>,
     <<"P", "A", "E", " ", "L", "I", "M", "I", "T", "E", "D", " ", "P", "R", "E", "F">>,
     <<"A", "C", "E", " ", "I", "N", "D", "I", "A">>,
     <<"A", "B", "C", "D", " ", "M", "I", "L", "L", "S", " ", "L", "T", "D">>,
     <<"X", "Y", "Z">>,
     <<"A", "b", "c", " ", "5", " ", "L", "t", "d", ".">>,
     <<"B", "O", "N", "D">>}

\* Frames read from EQUITY_L.csv, as rows <<NAME OF COMPANY, SYMBOL>>.
NseFrames ==
    {<<>>,
     << <<<<"A", "N", "I", "L", " ", "C", "O", "M", "P", "A", "N", "Y", " ", "L", "I", "M", "I", "T", "E", "D">>,
          <<"A", "N", "I", "L">>>>,
        <<<<"A", "C", "E", " ", "L", "I", "M", "I", "T", "E", "D">>,
          <<"A", "C", "E">>>> >>,
     << <<<<"A", "B", "C", "D", " ", "M", "I", "L", "L", " ", "L", "I", "M", "I", "T", "E", "D">>,
          <<"A", "B", "C", "D", "M", "I", "L", "L">>>>,
        <<<<"A", "B", "C", " ", "I", "N", "D", "U", "S", "T", "R", "I", "E", "S">>,
          <<"A", "B", "C">>>> >>,
     << <<<<"A", "B", "C", "E", " ", "M", "I", "L", "L", "S", " ", "L", "I", "M", "I", "T", "E", "D">>,
          <<"A", "B", "C", "E">>>>,
        <<<<"A", "B", "C", "D", " ", "M", "I", "L", "L", "S", " ", "P", "R", "I", "V", "A", "T", "E">>,
          <<"A", "B", "C", "D">>>> >>,
     << <<<<"A", "C", "E", " ", "L", "T", "D">>,
          <<"a", "c", "e">>>>,
        <<<<"I", "N", "D", "I", "A", " ", "L", "I", "M", "I", "T", "E", "D">>,
          <<"I", "N", "D", "I", "A">>>> >>}

\* The default threshold of line 89, and a stricter one.
NseThresholds == {Frac(75, 100), Frac(95, 100)}

InitNseMatch ==
    /\ IdleResolver
    /\ IdleScraper
    /\ IdleMain
    /\ IdleValuator
    /\ IdleReports
    /\ IdleFund
    /\ IdleLoader
    /\ holdings_name \in FailedNames
    /\ nse_dict \in NseFrames
    /\ threshold \in NseThresholds
    /\ fm_pc = "start"
    /\ match = <<>>

\* resolve_final_failed.py lines 89-124
FindBestNseMatch ==
    /\ fm_pc = "start"
    /\ match' = find_best_nse_match(holdings_name, nse_dict, threshold)
    /\ fm_pc' = "returned"
    /\ UNCHANGED <<holdings_name, nse_dict, threshold>>
    /\ UNCHANGED notMatcher

NextNseMatch == FindBestNseMatch

SpecNseMatch == InitNseMatch /\ [][NextNseMatch]_vars

\* The overrides whose cleaned key is the cleaned security name.
OverridesHit ==
    {k \in 1..Len(MANUAL_OVERRIDES) :
        aggressive_clean(MANUAL_OVERRIDES[k][1]) = aggressive_clean(holdings_name)}

\* The rows whose SYMBOL is the first word of the cleaned security name.
SymbolRows ==
    LET words == Split(aggressive_clean(holdings_name))
    IN  IF words = <<>> THEN {}
        ELSE {k \in 1..Len(nse_dict) : Upper(nse_dict[k][2]) = words[1]}

\* The score of row k against the cleaned security name.
RowScore(k) ==
    similarity_ratio(aggressive_clean(holdings_name), aggressive_clean(nse_dict[k][1]))

\* C22: find_best_nse_match returns the ticker of a manual override whose
\* cleaned key is the cleaned name, with method 'manual', whatever the listing
\* holds; otherwise the SYMBOL that equals the first cleaned word, with method
\* 'symbol'; otherwise the best fuzzy match when its score reaches the
\* threshold; otherwise (None, 0, 'failed').
C22_ManualSymbolFuzzy ==
    fm_pc = "returned" =>
        IF OverridesHit # {}
        THEN /\ match.type = "manual"
             /\ match.score = Float(1)
             /\ \E k \in OverridesHit : match.symbol = MANUAL_OVERRIDES[k][2]
        ELSE IF SymbolRows # {}
        THEN /\ match.type = "symbol"
             /\ \E k \in SymbolRows : match.symbol = nse_dict[k][2]
        ELSE IF \E k \in 1..Len(nse_dict) : FloatGeq(RowScore(k), threshold)
        THEN /\ match.type = "fuzzy"
             /\ FloatGeq(match.score, threshold)
             /\ \E k \in 1..Len(nse_dict) :
                   /\ match.symbol = nse_dict[k][2]
                   /\ match.score = RowScore(k)
                   /\ \A j \in 1..Len(nse_dict) : FloatGeq(RowScore(k), RowScore(j))
        ELSE match = [symbol |-> None, score |-> Float(0), type |-> "failed"]

\* C22 witness: the listing has the first cleaned word as a SYMBOL, and the
\* manual override is returned all the same.
C22_Witness ==
    /\ fm_pc = "returned"
    /\ OverridesHit # {}
    /\ SymbolRows # {}
    /\ match.type = "manual"
    /\ \A k \in SymbolRows : match.symbol # nse_dict[k][2]

----------------------------------------------------------------------------
(* data_loader.py: load_holdings_data on a sheet with or without a column  *)
(* of investor names, and the routines that are given the frame it         *)
(* returns.  A frame is [columns, rows]; a row is a sequence of cells, one *)
(* per column.                                                             *)

SmallLetters ==
    <<"a", "b", "c", "d", "e", "f", "g", "h", "i", "j", "k", "l", "m", "n", "o", "p", "q",
      "r", "s", "t", "u", "v", "w", "x", "y", "z">>

CapitalSeq ==
    <<"A", "B", "C", "D", "E", "F", "G", "H", "I", "J", "K", "L", "M", "N", "O", "P", "Q",
      "R", "S", "T", "U", "V", "W", "X", "Y", "Z">>

LowerChar(c) ==
    IF \E k \in 1..26 : CapitalSeq[k] = c
    THEN SmallLetters[CHOOSE k \in 1..26 : CapitalSeq[k] = c]
    ELSE c

\* str.lower()
Lower(s) == [k \in 1..Len(s) |-> LowerChar(s[k])]

\* The cells of a sheet: a text, a number, or an empty cell (NaN).
StrCell(s) == [kind |-> "str", s |-> s, n |-> 0]
NumCell(n) == [kind |-> "num", s |-> "", n |-> n]
NaNCell == [kind |-> "nan", s |-> "", n |-> 0]

\* data_loader.py line 15
name_keys ==
    <<<<"n", "a", "m", "e">>,
      <<"i", "n", "v", "e", "s", "t", "o", "r", " ", "n", "a", "m", "e">>,
      <<"i", "n", "v", "e", "s", "t", "o", "r">>,
      <<"c", "l", "i", "e", "n", "t", " ", "n", "a", "m", "e">>>>

\* data_loader.py line 22
security_keys ==
    <<<<"s", "e", "c", "u", "r", "i", "t", "y", " ", "n", "a", "m", "e">>,
      <<"s", "e", "c", "u", "r", "i", "t", "y">>,
      <<"s", "t", "o", "c", "k", " ", "n", "a", "m", "e">>,
      <<"s", "t", "o", "c", "k">>,
      <<"c", "o", "m", "p", "a", "n", "y">>,
      <<"s", "c", "r", "i", "p", " ", "n", "a", "m", "e">>>>

\* data_loader.py line 29
holding_keys ==
    <<<<"h", "o", "l", "d", "i", "n", "g">>,
      <<"h", "o", "l", "d", "i", "n", "g", "s">>,
      <<"q", "u", "a", "n", "t", "i", "t", "y">>,
      <<"q", "t", "y">>,
      <<"s", "h", "a", "r", "e", "s">>>>

\* data_loader.py line 36
value_keys ==
    <<<<"d", "e", "m", "a", "t", " ", "h", "o", "l", "d", "i", "n", "g", " ", "v", "l", "a", "u", "e", " ", "(", "r", "s", ".", ")">>,
      <<"c", "u", "r", "r", "e", "n", "t", " ", "v", "a", "l", "u", "e">>,
      <<"v", "a", "l", "u", "e">>,
      <<"m", "a", "r", "k", "e", "t", " ", "v", "a", "l", "u", "e">>,
      <<"h", "o", "l", "d", "i", "n", "g", " ", "v", "a", "l", "u", "e">>,
      <<"a", "m", "o", "u", "n", "t">>,
      <<"d", "e", "m", "a", "t", " ", "h", "o", "l", "d", "i", "n", "g", " ", "v", "a", "l", "u", "e">>>>

\* The standard column names of lines 69-75.
NAME_COL == <<"N", "A", "M", "E">>
SECURITY_NAME == <<"S", "e", "c", "u", "r", "i", "t", "y", " ", "N", "a", "m", "e">>
HOLDING == <<"H", "o", "l", "d", "i", "n", "g">>
DEMAT_VALUE ==
    <<"D", "e", "m", "a", "t", " ", "H", "o", "l", "d", "i", "n", "g", " ", "V", "l", "a", "u", "e", " ", "(", "R", "s", ".", ")">>

\* data_loader.py lines 11 and 14-18: the column whose lower-cased, stripped
\* name is the first key of the list that is a column, None without one; of two
\* columns with the same key the dictionary of line 11 keeps the later
DetectColumn(columns, keys) ==
    LET Key(k) == Strip(Lower(columns[k]))
        Found(key) == \E k \in 1..Len(columns) : Key(k) = key
        found == SelectSeq(keys, Found)
    IN  IF found = <<>> THEN None
        ELSE columns[CHOOSE k \in 1..Len(columns) :
                        /\ Key(k) = found[1]
                        /\ \A j \in 1..Len(columns) : Key(j) = found[1] => j <= k]

\* data_loader.py lines 9-42
detect_columns(columns) ==
    [name_col |-> DetectColumn(columns, name_keys),
     security_col |-> DetectColumn(columns, security_keys),
     holding_col |-> DetectColumn(columns, holding_keys),
     value_col |-> DetectColumn(columns, value_keys)]

\* pd.to_numeric(errors='coerce') on a cell; the texts of the sheets are not numbers
to_numeric(cell) == IF cell.kind = "num" THEN cell ELSE NaNCell

\* The position of a column of a frame.
ColumnOf(columns, name) ==
    CHOOSE k \in 1..Len(columns) :
        columns[k] = name /\ \A j \in 1..(k - 1) : columns[j] # name

\* data_loader.py lines 45-100: the returned frame, or the exception
load_holdings_data(df) ==
    LET columns == [k \in 1..Len(df.columns) |-> Strip(df.columns[k])]
        detected == detect_columns(columns)
    IN  IF \/ detected.security_col = None
           \/ detected.holding_col = None
           \/ detected.value_col = None
        THEN [raised |-> "ValueError", columns |-> <<>>, rows |-> <<>>]
        ELSE LET Renamed(c) ==
                     IF detected.name_col # None /\ c = detected.name_col THEN NAME_COL
                     ELSE IF c = detected.security_col THEN SECURITY_NAME
                     ELSE IF c = detected.holding_col THEN HOLDING
                     ELSE IF c = detected.value_col THEN DEMAT_VALUE
                     ELSE c
                 renamed == [k \in 1..Len(columns) |-> Renamed(columns[k])]
                 required_cols ==
                     (IF NAME_COL \in Range(renamed) THEN <<NAME_COL>> ELSE <<>>)
                         \o <<SECURITY_NAME, HOLDING, DEMAT_VALUE>>
                 Complete(row) ==
                     \A j \in 1..Len(required_cols) :
                         row[ColumnOf(renamed, required_cols[j])].kind # "nan"
                 kept == SelectSeq(df.rows, Complete)
                 numeric == [i \in 1..Len(kept) |->
                               [k \in 1..Len(renamed) |->
                                   IF renamed[k] \in {HOLDING, DEMAT_VALUE}
                                   THEN to_numeric(kept[i][k]) ELSE kept[i][k]]]
                 Numbers(row) ==
                     /\ row[ColumnOf(renamed, HOLDING)].kind # "nan"
                     /\ row[ColumnOf(renamed, DEMAT_VALUE)].kind # "nan"
             IN  [raised |-> "none", columns |-> renamed,
                  rows |-> SelectSeq(numeric, Numbers)]

\* The rows of a loaded frame as the rows of a holdings table; single is the
\* name that stands for the investor when the frame has no NAME column.
HoldingRecords(df, single) ==
    [i \in 1..Len(df.rows) |->
        HoldingRow(IF NAME_COL \in Range(df.columns)
                   THEN df.rows[i][ColumnOf(df.columns, NAME_COL)].s ELSE single,
                   df.rows[i][ColumnOf(df.columns, SECURITY_NAME)].s,
                   df.rows[i][ColumnOf(df.columns, HOLDING)].n,
                   df.rows[i][ColumnOf(df.columns, DEMAT_VALUE)].n)]

\* data_loader.py lines 220-245
get_investor_summary(df) ==
    LET rows == HoldingRecords(df, "Portfolio")
    IN  IF NAME_COL \notin Range(df.columns)
        THEN <<[Investor_Name |-> "Portfolio",
                Current_Total_Value |-> SumValue(rows),
                Number_of_Holdings |-> Len(rows)]>>
        ELSE LET keys == GroupKeys(rows)
                 Group(name) == LET IsInvestor(row) == row.NAME = name
                                IN  SelectSeq(rows, IsInvestor)
             IN  [k \in 1..Len(keys) |->
                    [Investor_Name |-> keys[k],
                     Current_Total_Value |-> SumValue(Group(keys[k])),
                     Number_of_Holdings |-> Len(Group(keys[k]))]]

\* enhanced_main.py lines 126-192 on a frame: the branch of line 137 for a
\* frame with NAME, the branch of line 168 which puts every row into the one
\* portfolio 'Portfolio' for a frame without
InvestorPortfoliosOf(df, sd) ==
    calculate_investor_portfolios(HoldingRecords(df, "Portfolio"), sd)

\* smart_calculator.py lines 53-74 on a frame: groupby('NAME') of line 57 raises
\* KeyError for a frame without the column
CoverageStatsOf(df, sd) ==
    IF NAME_COL \notin Range(df.columns)
    THEN [raised |-> "KeyError", value |-> <<>>]
    ELSE [raised |-> "none",
          value |-> calculate_coverage_stats(HoldingRecords(df, "Portfolio"), sd)]

\* Column layouts of the sheet: the names of the columns and, for each, which
\* of (investor, security, quantity, value) it holds.
Layouts ==
    {[columns |-> <<<<"N", "A", "M", "E">>,
                    <<"S", "e", "c", "u", "r", "i", "t", "y", " ", "N", "a", "m", "e">>,
                    <<"H", "o", "l", "d", "i", "n", "g">>,
                    <<"D", "e", "m", "a", "t", " ", "H", "o", "l", "d", "i", "n", "g", " ", "V", "l", "a", "u", "e", " ", "(", "R", "s", ".", ")">>>>,
      roles |-> <<1, 2, 3, 4>>],
     [columns |-> <<<<"S", "e", "c", "u", "r", "i", "t", "y", " ", "N", "a", "m", "e">>,
                    <<"H", "o", "l", "d", "i", "n", "g">>,
                    <<"D", "e", "m", "a", "t", " ", "H", "o", "l", "d", "i", "n", "g", " ", "V", "l", "a", "u", "e", " ", "(", "R", "s", ".", ")">>>>,
      roles |-> <<2, 3, 4>>],
     [columns |-> <<<<" ", "I", "n", "v", "e", "s", "t", "o", "r", " ">>,
                    <<"S", "t", "o", "c", "k">>,
                    <<"Q", "t", "y">>,
                    <<"V", "a", "l", "u", "e">>>>,
      roles |-> <<1, 2, 3, 4>>],
     [columns |-> <<<<"C", "l", "i", "e", "n", "t">>,
                    <<"S", "t", "o", "c", "k">>,
                    <<"Q", "t", "y">>,
                    <<"V", "a", "l", "u", "e">>>>,
      roles |-> <<1, 2, 3, 4>>],
     [columns |-> <<<<"S", "t", "o", "c", "k">>,
                    <<"Q", "t", "y">>>>,
      roles |-> <<2, 3>>],
     [columns |-> <<<<"A", "m", "o", "u", "n", "t">>,
                    <<"S", "h", "a", "r", "e", "s">>,
                    <<"C", "o", "m", "p", "a", "n", "y">>>>,
      roles |-> <<4, 3, 2>>]}

\* The rows of the sheet as (investor, security, quantity, value): two
\* investors, a row without investor, a quantity that is not a number, and a
\* security without prices.
Bodies ==
    {<< <<StrCell("A"), StrCell("S1"), NumCell(2), NumCell(3)>>,
        <<StrCell("B"), StrCell("S2"), NumCell(1), NumCell(0)>> >>,
     << <<StrCell("A"), StrCell("S1"), NumCell(2), NumCell(3)>>,
        <<NaNCell, StrCell("S3"), NumCell(1), NumCell(1)>> >>,
     << <<StrCell("B"), StrCell("S1"), StrCell("-"), NumCell(3)>>,
        <<StrCell("A"), StrCell("S2"), NumCell(1), NumCell(3)>> >>,
     << <<StrCell("A"), StrCell("S3"), NumCell(1), NumCell(1)>> >>}

Sheets ==
    {[columns |-> layout.columns,
      rows |-> [i \in 1..Len(body) |->
                  [k \in 1..Len(layout.columns) |-> body[i][layout.roles[k]]]]] :
        layout \in Layouts, body \in Bodies}

InitLoader ==
    /\ IdleResolver
    /\ IdleScraper
    /\ IdleMain
    /\ IdleReports
    /\ IdleMatcher
    /\ IdleFund
    /\ holdings_df = <<>>
    /\ stock_data \in {[S1 |-> LateSeries], [S1 |-> GapSeries, S2 |-> FullSeries]}
    /\ dates = AllDates(stock_data)
    /\ v_pc = "idle"
    /\ groups = <<>>
    /\ gi = 0
    /\ investor_portfolios = <<>>
    /\ tracked = <<>>
    /\ c_sheet \in Sheets
    /\ c_loaded = <<>>
    /\ c_pc = "start"
    /\ c_call = "none"
    /\ c_result = <<>>
    /\ c_raised = "none"

\* data_loader.py lines 45-100
LoadHoldings ==
    /\ c_pc = "start"
    /\ c_loaded' = load_holdings_data(c_sheet)
    /\ c_raised' = c_loaded'.raised
    /\ c_pc' = IF c_loaded'.raised = "none" THEN "loaded" ELSE "raised"
    /\ UNCHANGED <<c_sheet, c_call, c_result>>
    /\ UNCHANGED valuatorVars
    /\ UNCHANGED notLoader

\* data_loader.get_investor_summary on the loaded frame
CallInvestorSummary ==
    /\ c_pc = "loaded"
    /\ c_result' = get_investor_summary(c_loaded)
    /\ c_call' = "get_investor_summary"
    /\ c_pc' = "called"
    /\ UNCHANGED <<c_sheet, c_loaded, c_raised>>
    /\ UNCHANGED valuatorVars
    /\ UNCHANGED notLoader

\* enhanced_main.calculate_investor_portfolios on the loaded frame
CallInvestorPortfoliosOf ==
    /\ c_pc = "loaded"
    /\ c_result' = InvestorPortfoliosOf(c_loaded, stock_data)
    /\ c_call' = "calculate_investor_portfolios"
    /\ c_pc' = "called"
    /\ UNCHANGED <<c_sheet, c_loaded, c_raised>>
    /\ UNCHANGED valuatorVars
    /\ UNCHANGED notLoader

\* smart_calculator.calculate_coverage_stats on the loaded frame (main.py line 239)
CallCoverageStatsOf ==
    /\ c_pc = "loaded"
    /\ LET stats == CoverageStatsOf(c_loaded, stock_data)
       IN  /\ c_result' = stats.value
           /\ c_raised' = stats.raised
    /\ c_call' = "calculate_coverage_stats"
    /\ c_pc' = "called"
    /\ UNCHANGED <<c_sheet, c_loaded>>
    /\ UNCHANGED valuatorVars
    /\ UNCHANGED notLoader

\* smart_calculator.calculate_portfolio_with_partial_data on the loaded frame
\* (main.py line 138): groupby('NAME') of line 17 raises KeyError for a frame
\* without the column; with the column the loop of lines 17-48 starts
CallPartialData ==
    /\ c_pc = "loaded"
    /\ c_call' = "calculate_portfolio_with_partial_data"
    /\ c_pc' = "called"
    /\ IF NAME_COL \notin Range(c_loaded.columns)
       THEN /\ c_raised' = "KeyError"
            /\ UNCHANGED valuatorVars
       ELSE /\ c_raised' = "none"
            /\ holdings_df' = HoldingRecords(c_loaded, "Portfolio")
            /\ v_pc' = "start"
            /\ UNCHANGED <<stock_data, dates, groups, gi, investor_portfolios, tracked>>
    /\ UNCHANGED <<c_sheet, c_loaded, c_result>>
    /\ UNCHANGED notLoader

NextLoader ==
    \/ LoadHoldings
    \/ CallInvestorSummary
    \/ CallInvestorPortfoliosOf
    \/ CallCoverageStatsOf
    \/ CallPartialData
    \/ ValStart
    \/ ValueInvestor
    \/ ValReturn

SpecLoader == InitLoader /\ [][NextLoader]_vars

\* What detect_columns finds in the sheet.
Detected == detect_columns([k \in 1..Len(c_sheet.columns) |-> Strip(c_sheet.columns[k])])

\* The sheet has the three required columns and no column of investor names.
NoNameColumn ==
    /\ Detected.name_col = None
    /\ Detected.security_col # None
    /\ Detected.holding_col # None
    /\ Detected.value_col # None

\* C24: on a sheet without a column of investor names load_holdings_data
\* returns a frame, and no routine that is given the frame raises: each one
\* treats the holdings as one portfolio, calculate_portfolio_with_partial_data
\* and calculate_coverage_stats included.
C24_NoNameSinglePortfolio ==
    (c_pc # "start" /\ NoNameColumn) =>
        /\ c_pc # "raised"
        /\ c_loaded.raised = "none"
        /\ NAME_COL \notin Range(c_loaded.columns)
        /\ c_pc = "called" => c_raised = "none"

====
